---------------------------- MODULE Spec2Model ----------------------------
(***************************************************************************)
(* Model of scripts/bidirectional_sync.py: the per-section sync direction  *)
(* resolver, the format converter, the section merger and the frontmatter  *)
(* merger.                                                                 *)
(*                                                                         *)
(* Texts are sequences of one-character strings.  Python dicts are         *)
(* insertion-ordered: a dict is a sequence of [k, v] entries with unique   *)
(* keys.                                                                   *)
(***************************************************************************)
EXTENDS Integers, Sequences, FiniteSets, TLC

VARIABLES
    pc,               \* position in the operation being modelled
    SCHEMA,           \* the process-wide schema (bidirectional_sync.py:50)
    note_type,        \* sync_file: note_type
    source_platform,  \* sync_file: source_platform
    target_platform,  \* sync_file: target_platform
    target_exists,    \* os.path.exists(target_file)
    source_sections,  \* extract_sections(source_content)
    target_sections,  \* extract_sections(target_content)
    sync_directions,  \* result of determine_sync_direction
    merged_sections,  \* result of merge_sections / fresh conversion
    section_content,  \* converter harness: the text handed to the converter
    converted,        \* converter harness: the text the converter returned
    source_meta,      \* merge_frontmatter: source_meta
    target_meta,      \* merge_frontmatter: target_meta
    platform,         \* merge_frontmatter: platform
    file_path,        \* merge_frontmatter: file_path (<<>> models None)
    today,            \* datetime.now().strftime("%Y-%m-%d")
    merged,           \* result of merge_frontmatter
    metadata,         \* get_target_folder: metadata
    target_folder,    \* result of get_target_folder
    body,             \* extract_sections: content, the body of a note
    sections,         \* result of extract_sections
    reconstructed,    \* result of reconstruct_content
    file,             \* parse_frontmatter: the file at file_path
    parsed,           \* result of parse_frontmatter
    disk,             \* transform_file: the files, by path
    transform_call,   \* transform_file: the arguments of the call
    raised,           \* transform_file: the call ended with an exception
    files,            \* sync_all_files: the note files, by path
    queue,            \* sync_all_files: the source files still to sync
    call,             \* the call of sync_file under way, <<>> when none
    last              \* the last call of sync_file and what it returned

vars == <<pc, SCHEMA, note_type, source_platform, target_platform,
          target_exists, source_sections, target_sections, sync_directions,
          merged_sections, section_content, converted, source_meta,
          target_meta, platform, file_path, today, merged, metadata,
          target_folder, body, sections, reconstructed, file, parsed,
          disk, transform_call, raised, files, queue, call,
          last>>

syncVars == <<SCHEMA, note_type, source_platform, target_platform,
              target_exists, source_sections, target_sections,
              sync_directions, merged_sections>>
convVars == <<section_content, converted>>
metaVars == <<source_meta, target_meta, platform, file_path, today, merged>>
folderVars == <<metadata, target_folder>>
\* the variables of the operations modelled on their own
bodyVars == <<body, sections, reconstructed>>
parseVars == <<file, parsed>>
transformVars == <<disk, transform_call, raised>>
batchVars == <<files, queue, call, last>>
auxVars == <<folderVars, bodyVars, parseVars, transformVars, batchVars>>

---------------------------------------------------------------------------
(* Bounds *)

\* how many of the sample section texts the two sides draw from
NumTexts == 4
\* how many lines a text handed to the converter has at most
MaxLines == 3
\* how many keys a metadata mapping holds at most
MaxMetaKeys == 2

---------------------------------------------------------------------------
(* Strings *)

NL == "\n"

\* the backquote character (a string of the module cannot hold it)
BQ == "bq"

IsSpace(c) == c \in {" ", "\t", "\n"}

Min(a, b) == IF a < b THEN a ELSE b

\* s[i:] (1-based, inclusive)
From(s, i) == SubSeq(s, i, Len(s))

\* str.startswith
StartsWith(s, p) == Len(s) >= Len(p) /\ SubSeq(s, 1, Len(p)) = p

\* number of leading whitespace characters of s
RECURSIVE LeadingSpace(_)
LeadingSpace(s) ==
    IF s = <<>> \/ ~IsSpace(Head(s)) THEN 0 ELSE 1 + LeadingSpace(Tail(s))

\* number of trailing whitespace characters of s
RECURSIVE TrailingSpace(_)
TrailingSpace(s) ==
    IF s = <<>> \/ ~IsSpace(s[Len(s)]) THEN 0
    ELSE 1 + TrailingSpace(SubSeq(s, 1, Len(s) - 1))

\* str.strip()
Strip(s) ==
    LET l == LeadingSpace(s)
    IN  IF l = Len(s) THEN <<>>
        ELSE SubSeq(s, l + 1, Len(s) - TrailingSpace(s))

\* str.split('\n'): always at least one piece
RECURSIVE SplitLines(_)
SplitLines(s) ==
    IF \A i \in 1..Len(s) : s[i] # NL THEN <<s>>
    ELSE LET i == CHOOSE j \in 1..Len(s) :
                      s[j] = NL /\ \A h \in 1..(j - 1) : s[h] # NL
         IN  <<SubSeq(s, 1, i - 1)>> \o SplitLines(From(s, i + 1))

\* sep.join(parts)
RECURSIVE Join(_, _)
Join(parts, sep) ==
    IF parts = <<>> THEN <<>>
    ELSE IF Len(parts) = 1 THEN parts[1]
    ELSE parts[1] \o sep \o Join(Tail(parts), sep)

---------------------------------------------------------------------------
(* Python dicts *)

Keys(d) == {d[i].k : i \in 1..Len(d)}

Has(d, key) == key \in Keys(d)

\* d.get(key, default)
Get(d, key, default) ==
    IF Has(d, key) THEN d[CHOOSE i \in 1..Len(d) : d[i].k = key].v
    ELSE default

\* d[key] = value
Put(d, key, value) ==
    IF Has(d, key)
    THEN [i \in 1..Len(d) |-> IF d[i].k = key THEN [k |-> key, v |-> value]
                              ELSE d[i]]
    ELSE Append(d, [k |-> key, v |-> value])

\* list(d.keys())
KeyList(d) == [i \in 1..Len(d) |-> d[i].k]

\* the dict holding, in the order of keyOrder, the keys of keyOrder that are
\* in ks, each with the value val[key]
RECURSIVE DictOf(_, _, _)
DictOf(keyOrder, ks, val) ==
    IF keyOrder = <<>> THEN <<>>
    ELSE IF Head(keyOrder) \in ks
         THEN <<[k |-> Head(keyOrder), v |-> val[Head(keyOrder)]]>>
              \o DictOf(Tail(keyOrder), ks, val)
         ELSE DictOf(Tail(keyOrder), ks, val)

\* the orders in which a set can be iterated
Orders(S) ==
    {o \in [1..Cardinality(S) -> S] : \A x \in S : \E i \in DOMAIN o : o[i] = x}

\* f.get(key, default) for a JSON object read as a function
FGet(f, key, default) == IF key \in DOMAIN f THEN f[key] ELSE default

NoKeys == [x \in {} |-> FALSE]

---------------------------------------------------------------------------
(* Similarity oracle *)

\* hashlib.md5(section_content.encode('utf-8')).hexdigest(): the digest of the
\* encoded text.  The encoding maps each character to its code; the digest is
\* taken to be collision-free on the texts of the model.
CharCode(c) ==
    CASE c = "\n" -> 10 [] c = "\t" -> 9 [] c = " " -> 32 [] c = "#" -> 35
      [] c = "-" -> 45 [] c = ">" -> 62 [] c = BQ -> 96 [] c = "a" -> 97
      [] c = "b" -> 98 [] c = "c" -> 99 [] c = "e" -> 101 [] c = "h" -> 104
      [] c = "l" -> 108 [] c = "p" -> 112 [] c = "q" -> 113 [] c = "s" -> 115
      [] c = "t" -> 116 [] c = "x" -> 120 [] OTHER -> 63

get_section_hash(text) == [i \in 1..Len(text) |-> CharCode(text[i])]

\* length of the longest common run of a from i and b from j
RECURSIVE CommonLen(_, _, _, _)
CommonLen(a, b, i, j) ==
    IF i > Len(a) \/ j > Len(b) THEN 0
    ELSE IF a[i] # b[j] THEN 0
    ELSE 1 + CommonLen(a, b, i + 1, j + 1)

\* difflib.SequenceMatcher.find_longest_match without junk: the longest
\* block a[i..i+k-1] = b[j..j+k-1]; of the longest, the one starting earliest
\* in a, and of those the one starting earliest in b
find_longest_match(a, b) ==
    LET pairs == (1..Len(a)) \X (1..Len(b))
        k     == CHOOSE n \in 0..Min(Len(a), Len(b)) :
                     /\ \A p \in pairs : CommonLen(a, b, p[1], p[2]) <= n
                     /\ n > 0 => \E p \in pairs : CommonLen(a, b, p[1], p[2]) = n
        best  == {p \in pairs : CommonLen(a, b, p[1], p[2]) = k}
        i     == CHOOSE x \in {p[1] : p \in best} :
                     \A p \in best : x <= p[1]
        j     == CHOOSE y \in {p[2] : p \in {q \in best : q[1] = i}} :
                     \A p \in {q \in best : q[1] = i} : y <= p[2]
    IN  IF k = 0 THEN [i |-> 1, j |-> 1, k |-> 0]
        ELSE [i |-> i, j |-> j, k |-> k]

\* difflib.SequenceMatcher.get_matching_blocks: the total size of the blocks
\* found by matching the longest block and then, recursively, the pieces to
\* its left and to its right
RECURSIVE matching_size(_, _)
matching_size(a, b) ==
    IF a = <<>> \/ b = <<>> THEN 0
    ELSE LET m == find_longest_match(a, b)
         IN  IF m.k = 0 THEN 0
             ELSE m.k
                  + matching_size(SubSeq(a, 1, m.i - 1), SubSeq(b, 1, m.j - 1))
                  + matching_size(From(a, m.i + m.k), From(b, m.j + m.k))

\* difflib.SequenceMatcher(None, a, b).ratio() = 2.0 * matches / length, and
\* 1.0 when both are empty; kept as the fraction num / den
ratio(a, b) ==
    IF Len(a) + Len(b) = 0 THEN [num |-> 1, den |-> 1]
    ELSE [num |-> 2 * matching_size(a, b), den |-> Len(a) + Len(b)]

\* similarity > 0.9
very_similar_ge(a, b) == 10 * ratio(a, b).num >= 9 * ratio(a, b).den

very_similar(a, b) == 10 * ratio(a, b).num > 9 * ratio(a, b).den

---------------------------------------------------------------------------
(* Schema *)

Platforms == {"logseq", "obsidian", "quarto"}

Formats == {"bullets", "paragraphs", "blockquotes"}

\* The schema entry of a section is a JSON object; its boolean keys (sync,
\* obsidian_only, logseq_only, quarto_only) are held in flags and its
\* <platform>_format keys in formats, keyed by the platform.
Entry(flags, formats) == [flags |-> flags, formats |-> formats]

SyncTrue == Entry("sync" :> TRUE, NoKeys)

\* the schema load_schema returns when the schema file is missing
DefaultSchema ==
    [note_types |->
        ("note" :> ("sections" :>
            ("overview" :> SyncTrue @@ "notes" :> SyncTrue
             @@ "references" :> SyncTrue)))]

\* the entries a schema file gives the section "private"
PrivateFlags ==
    { "sync" :> FALSE,
      "sync" :> FALSE @@ "obsidian_only" :> TRUE,
      "sync" :> FALSE @@ "logseq_only" :> TRUE,
      "sync" :> FALSE @@ "quarto_only" :> TRUE,
      "sync" :> TRUE @@ "obsidian_only" :> TRUE }

NotesFormats ==
    "logseq" :> "bullets" @@ "obsidian" :> "paragraphs"
    @@ "quarto" :> "blockquotes"

\* a schema file listing the types note and person
FileSchema(privateFlags) ==
    [note_types |->
        ("note" :> ("sections" :>
            ("notes" :> Entry("sync" :> TRUE, NotesFormats)
             @@ "private" :> Entry(privateFlags, NoKeys)))
         @@ "person" :> ("sections" :>
            ("notes" :> Entry("sync" :> FALSE, NoKeys))))]

Schemas == {DefaultSchema} \cup {FileSchema(f) : f \in PrivateFlags}

\* SCHEMA["note_types"].get(note_type, SCHEMA["note_types"]["note"])
type_schema_no_fallback(schema, type) ==
    FGet(schema.note_types, type, NoKeys)

type_schema(schema, type) ==
    FGet(schema.note_types, type, schema.note_types["note"])

\* type_schema.get("sections", {})
sections_schema(schema, type) ==
    FGet(type_schema(schema, type), "sections", NoKeys)

---------------------------------------------------------------------------
(* Sync direction resolver *)

\* the branch of determine_sync_direction for a section that is not synced
unsynced_direction(section_schema) ==
    IF FGet(section_schema.flags, "obsidian_only", FALSE) THEN "target_only"
    ELSE IF FGet(section_schema.flags, "logseq_only", FALSE) THEN "source_only"
    ELSE IF FGet(section_schema.flags, "quarto_only", FALSE) THEN "ignore"
    ELSE "ignore"

\* the branch of determine_sync_direction for a synced section
synced_direction_swapped(section_name, source, target) ==
    IF Has(source, section_name) /\ Has(target, section_name)
    THEN "none"
    ELSE IF Has(source, section_name) THEN "target_to_source"
    ELSE "source_to_target"

synced_direction(section_name, source, target) ==
    IF Has(source, section_name) /\ Has(target, section_name)
    THEN LET s == Get(source, section_name, <<>>)
             t == Get(target, section_name, <<>>)
         IN  IF get_section_hash(s) = get_section_hash(t) THEN "none"
             ELSE IF very_similar(s, t) THEN "none"
             ELSE "source_to_target"
    ELSE IF Has(source, section_name) THEN "source_to_target"
    ELSE "target_to_source"

\* one iteration of the loop of determine_sync_direction
section_direction(schema, type, section_name, source, target) ==
    LET section_schema == FGet(sections_schema(schema, type), section_name,
                               SyncTrue)
    IN  IF ~FGet(section_schema.flags, "sync", TRUE)
        THEN unsynced_direction(section_schema)
        ELSE synced_direction(section_name, source, target)

\* determine_sync_direction, iterating the set of section names in order
determine_sync_direction(schema, source, target, type, order) ==
    [i \in 1..Len(order) |->
        [k |-> order[i],
         v |-> section_direction(schema, type, order[i], source, target)]]

---------------------------------------------------------------------------
(* Format converter *)

Fence == <<BQ, BQ, BQ>>

\* re.sub(r'^[\s]*-\s*', '', line)
strip_bullet(line) ==
    LET l == LeadingSpace(line)
    IN  IF l < Len(line) /\ line[l + 1] = "-"
        THEN LET rest == From(line, l + 2)
             IN  From(rest, LeadingSpace(rest) + 1)
        ELSE line

\* re.sub(r'^>\s*', '', line)
strip_quote(line) ==
    IF line # <<>> /\ Head(line) = ">"
    THEN From(Tail(line), LeadingSpace(Tail(line)) + 1)
    ELSE line

\* paragraphs.append(current_paragraph) if current_paragraph is not empty
Flush(st) ==
    IF st.current # <<>>
    THEN [st EXCEPT !.paragraphs = Append(@, st.current), !.current = <<>>]
    ELSE st

\* the body of the loop of convert_bullet_to_paragraph for one line
b2p_line(st, line) ==
    IF Strip(line) = <<>> THEN Flush(st)
    ELSE IF StartsWith(Strip(line), Fence)
    THEN [st EXCEPT !.in_code_block = ~@, !.paragraphs = Append(@, line)]
    ELSE IF st.in_code_block
    THEN [st EXCEPT !.paragraphs = Append(@, line)]
    ELSE IF StartsWith(Strip(line), <<"#">>)
    THEN [Flush(st) EXCEPT !.paragraphs = Append(@, line)]
    ELSE LET clean_line == strip_bullet(line)
         IN  IF StartsWith(line, <<" ", " ">>) \/ StartsWith(line, <<"\t">>)
             THEN IF st.current # <<>>
                  THEN [st EXCEPT !.current = @ \o <<" ">> \o clean_line]
                  ELSE [st EXCEPT !.current = clean_line]
             ELSE [Flush(st) EXCEPT !.current = clean_line]

RECURSIVE b2p_loop(_, _)
b2p_loop(st, lines) ==
    IF lines = <<>> THEN st
    ELSE b2p_loop(b2p_line(st, Head(lines)), Tail(lines))

\* convert_bullet_to_paragraph(content, platform)
convert_bullet_to_paragraph(content, plat) ==
    IF plat \notin {"obsidian", "quarto"} THEN content
    ELSE LET st == b2p_loop([paragraphs |-> <<>>, current |-> <<>>,
                             in_code_block |-> FALSE], SplitLines(content))
         IN  Join(Flush(st).paragraphs, <<NL, NL>>)

\* re.split(r'\n\s*\n', content): a separator starts at a newline and runs,
\* through whitespace only, to the last newline it can reach
RECURSIVE split_paragraphs(_)
split_paragraphs(content) ==
    LET n == Len(content)
        \* the last newline reachable from the newline at i through whitespace
        SepEnd(i) ==
            LET ends == {e \in (i + 1)..n :
                            /\ content[e] = NL
                            /\ \A h \in (i + 1)..e : IsSpace(content[h])}
            IN  IF ends = {} THEN 0
                ELSE CHOOSE e \in ends : \A f \in ends : f <= e
        starts == {i \in 1..n : content[i] = NL /\ SepEnd(i) # 0}
    IN  IF starts = {} THEN <<content>>
        ELSE LET i == CHOOSE x \in starts : \A y \in starts : x <= y
             IN  <<SubSeq(content, 1, i - 1)>>
                 \o split_paragraphs(From(content, SepEnd(i) + 1))

\* re.match(r'^#+\s+', line)
is_heading(line) ==
    \E h \in 1..Len(line) :
        /\ \A i \in 1..h : line[i] = "#"
        /\ h < Len(line)
        /\ IsSpace(line[h + 1])

\* the lines convert_paragraph_to_bullet appends to result for one paragraph
p2b_paragraph(para) ==
    LET lines == SplitLines(Strip(para))
    IN  IF is_heading(lines[1])
        THEN IF Len(lines) > 1
             THEN <<lines[1]>>
                  \o [i \in 1..(Len(lines) - 1) |-> <<"-", " ">> \o lines[i + 1]]
             ELSE <<lines[1], <<"-", " ">>>>
        ELSE [i \in 1..Len(lines) |->
                 IF i = 1 THEN <<"-", " ">> \o lines[i]
                 ELSE <<" ", " ">> \o lines[i]]

RECURSIVE p2b_loop(_)
p2b_loop(paragraphs) ==
    IF paragraphs = <<>> THEN <<>>
    ELSE p2b_paragraph(Head(paragraphs)) \o p2b_loop(Tail(paragraphs))

\* convert_paragraph_to_bullet(content)
convert_paragraph_to_bullet(content) ==
    Join(p2b_loop(split_paragraphs(content)), <<NL>>)

\* the blockquote branches of convert_section_format
bullets_to_blockquotes(content) ==
    LET lines == SplitLines(content)
    IN  Join([i \in 1..Len(lines) |-> <<">", " ">> \o strip_bullet(lines[i])],
             <<NL>>)

blockquotes_to_bullets(content) ==
    LET lines == SplitLines(content)
    IN  Join([i \in 1..Len(lines) |-> <<"-", " ">> \o strip_quote(lines[i])],
             <<NL>>)

\* the dispatch of convert_section_format on the two resolved formats
convert_formats_by_source(content, source_format_type, target_format_type) ==
    IF source_format_type = "bullets"
    THEN convert_bullet_to_paragraph(content, "obsidian")
    ELSE IF source_format_type = "paragraphs"
    THEN convert_paragraph_to_bullet(content)
    ELSE blockquotes_to_bullets(content)

convert_formats(content, source_format_type, target_format_type) ==
    IF source_format_type = target_format_type THEN content
    ELSE IF source_format_type = "bullets" /\ target_format_type = "paragraphs"
    THEN convert_bullet_to_paragraph(content, "obsidian")
    ELSE IF source_format_type = "paragraphs" /\ target_format_type = "bullets"
    THEN convert_paragraph_to_bullet(content)
    ELSE IF source_format_type = "bullets" /\ target_format_type = "blockquotes"
    THEN bullets_to_blockquotes(content)
    ELSE IF source_format_type = "blockquotes" /\ target_format_type = "bullets"
    THEN blockquotes_to_bullets(content)
    ELSE content

\* section_schema.get(f"{source_format}_format", "bullets")
source_format_type(schema, type, section_name, source_format) ==
    LET section_schema == FGet(sections_schema(schema, type), section_name,
                               Entry(NoKeys, NoKeys))
    IN  FGet(section_schema.formats, source_format, "bullets")

\* were the default of the target side the format of the target platform
target_format_type_by_platform(schema, type, section_name, target_format) ==
    LET section_schema == FGet(sections_schema(schema, type), section_name,
                               Entry(NoKeys, NoKeys))
    IN  FGet(section_schema.formats, target_format,
             IF target_format = "logseq" THEN "bullets" ELSE "paragraphs")

\* section_schema.get(f"{target_format}_format", "paragraphs")
target_format_type(schema, type, section_name, target_format) ==
    LET section_schema == FGet(sections_schema(schema, type), section_name,
                               Entry(NoKeys, NoKeys))
    IN  FGet(section_schema.formats, target_format, "paragraphs")

\* convert_section_format(section_content, note_type, section_name,
\*                        source_format, target_format)
convert_section_format(schema, content, type, section_name, source_format, target_format) ==
    convert_formats(content,
        source_format_type(schema, type, section_name, source_format),
        target_format_type(schema, type, section_name, target_format))

---------------------------------------------------------------------------
(* Section merger *)

\* the body of the loop of merge_sections for one (section_name, direction)
merge_one_from_target(schema, m, section_name, direction, source, target, type, sp, tp) ==
    IF direction \in {"none", "source_to_target", "target_to_source"}
    THEN Put(m, section_name, Get(target, section_name, <<>>))
    ELSE IF direction = "target_only" /\ Has(target, section_name)
    THEN Put(m, section_name, Get(target, section_name, <<>>))
    ELSE m

merge_one_keep_all(schema, m, section_name, direction, source, target, type, sp, tp) ==
    IF direction = "source_to_target"
    THEN Put(m, section_name,
             convert_section_format(schema, Get(source, section_name, <<>>),
                                    type, section_name, sp, tp))
    ELSE IF direction = "source_only"
    THEN Put(m, section_name, Get(source, section_name, <<>>))
    ELSE Put(m, section_name, Get(target, section_name, <<>>))

merge_one_keep_ignored(schema, m, section_name, direction, source, target, type, sp, tp) ==
    IF direction = "source_to_target"
    THEN Put(m, section_name,
             convert_section_format(schema, Get(source, section_name, <<>>),
                                    type, section_name, sp, tp))
    ELSE IF direction \in {"none", "target_to_source"}
    THEN Put(m, section_name, Get(target, section_name, <<>>))
    ELSE IF Has(target, section_name)
    THEN Put(m, section_name, Get(target, section_name, <<>>))
    ELSE m

merge_one(schema, m, section_name, direction, source, target, type, sp, tp) ==
    IF direction = "none"
    THEN Put(m, section_name, Get(target, section_name, <<>>))
    ELSE IF direction = "source_to_target"
    THEN Put(m, section_name,
             convert_section_format(schema, Get(source, section_name, <<>>),
                                    type, section_name, sp, tp))
    ELSE IF direction = "target_to_source"
    THEN Put(m, section_name, Get(target, section_name, <<>>))
    ELSE IF direction = "target_only"
    THEN IF Has(target, section_name)
         THEN Put(m, section_name, Get(target, section_name, <<>>))
         ELSE m
    ELSE m

RECURSIVE merge_loop(_, _, _, _, _, _, _, _)
merge_loop(schema, m, directions, source, target, type, sp, tp) ==
    IF directions = <<>> THEN m
    ELSE merge_loop(schema,
                    merge_one(schema, m, Head(directions).k,
                              Head(directions).v, source, target, type, sp, tp),
                    Tail(directions), source, target, type, sp, tp)

\* merge_sections(source_sections, target_sections, note_type,
\*                sync_directions, source_platform, target_platform)
merge_sections(schema, source, target, type, directions, sp, tp) ==
    merge_loop(schema, <<>>, directions, source, target, type, sp, tp)

\* sync_file when the target file does not exist, were the sections with
\* sync false left out
convert_synced_sections(schema, source, type, sp, tp) ==
    LET synced == SelectSeq(source, LAMBDA e :
                      FGet(FGet(sections_schema(schema, type), e.k,
                                SyncTrue).flags, "sync", TRUE))
    IN  [i \in 1..Len(synced) |->
            [k |-> synced[i].k,
             v |-> convert_section_format(schema, synced[i].v, type,
                                          synced[i].k, sp, tp)]]

\* sync_file when the target file does not exist: every source section is
\* converted
convert_all_sections(schema, source, type, sp, tp) ==
    [i \in 1..Len(source) |->
        [k |-> source[i].k,
         v |-> convert_section_format(schema, source[i].v, type, source[i].k,
                                      sp, tp)]]

---------------------------------------------------------------------------
(* The section pipeline of sync_file *)

\* section texts as extract_sections yields them (stripped)
SampleTexts ==
    << <<"-"," ","a","l","p","h","a">>,
       <<"-"," ","a","l","p","h","a","s">>,
       <<"-"," ","a",NL," "," ","-"," ","b">>,
       <<"-"," ","a",NL," "," ","-"," ","b"," ","c">>,
       <<"b","e","t","a">>,
       <<BQ,BQ,BQ,NL,"x",NL,BQ,BQ,BQ>> >>

NumSectionTexts == Min(NumTexts, Len(SampleTexts))

SectionOrder == <<"notes", "private">>

\* per section name the index of its text, 0 when the side lacks the section
SectionChoices == [notes : 0..NumSectionTexts, private : {0, 1, 3}]

SectionsOf(choice) ==
    DictOf(SectionOrder,
           {n \in {"notes", "private"} : choice[n] # 0},
           [n \in {"notes", "private"} |->
               IF choice[n] = 0 THEN <<>> ELSE SampleTexts[choice[n]]])

NoteTypes == {"note", "person", "journal"}

\* (source_platform, target_platform) of a sync_file call
SyncPairs ==
    { <<"logseq", "obsidian">>, <<"obsidian", "logseq">>,
      <<"content", "quarto">>, <<"quarto", "obsidian">> }

IdleConv == section_content = <<>> /\ converted = <<>>

IdleFolder == metadata = <<>> /\ target_folder = ""

IdleBody == body = <<>> /\ sections = <<>> /\ reconstructed = <<>>

IdleParse == file = <<>> /\ parsed = <<>>

IdleTransform == disk = <<>> /\ transform_call = <<>> /\ raised = FALSE

IdleBatch == files = <<>> /\ queue = <<>> /\ call = <<>> /\ last = <<>>

IdleAux ==
    IdleFolder /\ IdleBody /\ IdleParse /\ IdleTransform /\ IdleBatch

IdleMeta ==
    /\ source_meta = <<>>
    /\ target_meta = <<>>
    /\ platform = "logseq"
    /\ file_path = <<>>
    /\ today = <<>>
    /\ merged = <<>>

IdleSync ==
    /\ SCHEMA = DefaultSchema
    /\ note_type = "note"
    /\ source_platform = "content"
    /\ target_platform = "logseq"
    /\ target_exists = FALSE
    /\ source_sections = <<>>
    /\ target_sections = <<>>
    /\ sync_directions = <<>>
    /\ merged_sections = <<>>

Init ==
    /\ pc = "start"
    /\ SCHEMA \in Schemas
    /\ note_type \in NoteTypes
    /\ \E pair \in SyncPairs :
           source_platform = pair[1] /\ target_platform = pair[2]
    /\ target_exists \in BOOLEAN
    /\ \E c \in SectionChoices : source_sections = SectionsOf(c)
    /\ \E c \in SectionChoices :
           target_sections = IF target_exists THEN SectionsOf(c) ELSE <<>>
    /\ sync_directions = <<>>
    /\ merged_sections = <<>>
    /\ IdleConv
    /\ IdleMeta
    /\ IdleAux

\* sync_file, target file exists: determine_sync_direction
DetermineSyncDirection ==
    /\ pc = "start"
    /\ target_exists
    /\ \E order \in Orders(Keys(source_sections) \cup Keys(target_sections)) :
           sync_directions' =
               determine_sync_direction(SCHEMA, source_sections,
                                        target_sections, note_type, order)
    /\ pc' = "resolved"
    /\ UNCHANGED <<SCHEMA, note_type, source_platform, target_platform,
                   target_exists, source_sections, target_sections,
                   merged_sections, convVars, metaVars, auxVars>>

\* sync_file, target file exists: merge_sections
MergeSections ==
    /\ pc = "resolved"
    /\ merged_sections' =
           merge_sections(SCHEMA, source_sections, target_sections, note_type,
                          sync_directions, source_platform, target_platform)
    /\ pc' = "merged"
    /\ UNCHANGED <<SCHEMA, note_type, source_platform, target_platform,
                   target_exists, source_sections, target_sections,
                   sync_directions, convVars, metaVars,
                   auxVars>>

\* sync_file, target file does not exist: convert all sections
ConvertAllSections ==
    /\ pc = "start"
    /\ ~target_exists
    /\ merged_sections' =
           convert_all_sections(SCHEMA, source_sections, note_type,
                                source_platform, target_platform)
    /\ pc' = "merged"
    /\ UNCHANGED <<SCHEMA, note_type, source_platform, target_platform,
                   target_exists, source_sections, target_sections,
                   sync_directions, convVars, metaVars,
                   auxVars>>

Next == DetermineSyncDirection \/ MergeSections \/ ConvertAllSections

Spec == Init /\ [][Next]_vars

---------------------------------------------------------------------------
(* Properties of the resolver and the merger *)

SectionNames == {"notes", "private"}

Resolved == pc \in {"resolved", "merged"} /\ target_exists

Direction(name) == Get(sync_directions, name, "missing")

\* the schema entry the resolver reads for a section: the entry under the
\* note's type, or under the type note when the schema does not list the type
ResolverSections ==
    LET types == SCHEMA.note_types
        ts    == IF note_type \in DOMAIN types THEN types[note_type]
                 ELSE types["note"]
    IN  IF "sections" \in DOMAIN ts THEN ts["sections"] ELSE NoKeys

SyncEnabled(name) ==
    \/ name \notin DOMAIN ResolverSections
    \/ "sync" \notin DOMAIN ResolverSections[name].flags
    \/ ResolverSections[name].flags["sync"]

\* <platform>_only is set in the entry the resolver reads for the section
ExclusiveTo(name, plat) ==
    /\ name \in DOMAIN ResolverSections
    /\ (plat \o "_only") \in DOMAIN ResolverSections[name].flags
    /\ ResolverSections[name].flags[plat \o "_only"]

InSource(name) == Has(source_sections, name)
InTarget(name) == Has(target_sections, name)
SourceText(name) == Get(source_sections, name, <<>>)
TargetText(name) == Get(target_sections, name, <<>>)

RatioAbove09(a, b) == 10 * ratio(a, b).num > 9 * ratio(a, b).den

\* the direction the presence and the similarity of a section decide
PresenceDirection(name) ==
    IF InSource(name) /\ InTarget(name)
    THEN IF \/ get_section_hash(SourceText(name))
                = get_section_hash(TargetText(name))
            \/ RatioAbove09(SourceText(name), TargetText(name))
         THEN "none" ELSE "source_to_target"
    ELSE IF InSource(name) THEN "source_to_target" ELSE "target_to_source"

\* C1: a sync-enabled section present on both sides resolves to none exactly
\* when the two texts have equal hashes or a similarity ratio strictly above
\* 0.9, and to source_to_target otherwise (a ratio of exactly 0.9 included)
C1_BothSidesDirection ==
    Resolved =>
        \A name \in SectionNames :
            (InSource(name) /\ InTarget(name) /\ SyncEnabled(name)) =>
                /\ Direction(name) \in {"none", "source_to_target"}
                /\ Direction(name) = "none" <=>
                      \/ get_section_hash(SourceText(name))
                           = get_section_hash(TargetText(name))
                      \/ RatioAbove09(SourceText(name), TargetText(name))

\* a section whose two texts differ and are more than 0.9 similar has been
\* resolved to none
C1_Witness ==
    /\ Resolved
    /\ \E name \in SectionNames :
           /\ InSource(name) /\ InTarget(name) /\ SyncEnabled(name)
           /\ SourceText(name) # TargetText(name)
           /\ RatioAbove09(SourceText(name), TargetText(name))
           /\ Direction(name) = "none"

\* C2: a sync-enabled section present only in the source resolves to
\* source_to_target, one present only in the target to target_to_source
C2_OneSideDirection ==
    Resolved =>
        \A name \in SectionNames :
            SyncEnabled(name) =>
                /\ (InSource(name) /\ ~InTarget(name))
                       => Direction(name) = "source_to_target"
                /\ (InTarget(name) /\ ~InSource(name))
                       => Direction(name) = "target_to_source"

\* one section only in the source and another only in the target, both
\* sync-enabled, have been resolved
C2_Witness ==
    /\ Resolved
    /\ \E a, b \in SectionNames :
           /\ SyncEnabled(a) /\ InSource(a) /\ ~InTarget(a)
           /\ Direction(a) = "source_to_target"
           /\ SyncEnabled(b) /\ InTarget(b) /\ ~InSource(b)
           /\ Direction(b) = "target_to_source"

\* C3: a section with sync false resolves to target_only iff the schema marks
\* it exclusive to the platform synced to, to source_only iff it marks it
\* exclusive to the platform synced from, and to ignore otherwise
C3_ExclusiveByPlatform ==
    Resolved =>
        \A name \in Keys(sync_directions) :
            ~SyncEnabled(name) =>
                /\ Direction(name) = "target_only"
                       <=> ExclusiveTo(name, target_platform)
                /\ Direction(name) = "source_only"
                       <=> ExclusiveTo(name, source_platform)
                /\ Direction(name) = "ignore"
                       <=> (/\ ~ExclusiveTo(name, source_platform)
                            /\ ~ExclusiveTo(name, target_platform))

\* C4 as stated: a section of a note whose type the schema does not list, or
\* a section the schema does not list under the note's type, is resolved by
\* presence and similarity only
C4_UnlistedIsSynced ==
    Resolved =>
        \A name \in Keys(sync_directions) :
            (\/ note_type \notin DOMAIN SCHEMA.note_types
             \/ name \notin DOMAIN ResolverSections) =>
                Direction(name) = PresenceDirection(name)

\* C4 amended: a section that is not listed under the type schema the
\* resolver reads (the note's own type, or the type note when the schema does
\* not list the note's type) is resolved by presence and similarity only; a
\* section of a note of an unlisted type that the type note lists with sync
\* false is not synced
C4_UnlistedSectionIsSynced ==
    Resolved =>
        \A name \in Keys(sync_directions) :
            /\ name \notin DOMAIN ResolverSections
                   => Direction(name) = PresenceDirection(name)
            /\ (/\ note_type \notin DOMAIN SCHEMA.note_types
                /\ name \in DOMAIN SCHEMA.note_types["note"]["sections"]
                /\ "sync" \in DOMAIN
                       SCHEMA.note_types["note"]["sections"][name].flags
                /\ ~SCHEMA.note_types["note"]["sections"][name].flags["sync"])
                   => Direction(name) \in {"target_only", "source_only",
                                           "ignore"}

\* a note of an unlisted type has a section that the type note does not
\* list, and the section has been resolved by its presence in the source
C4_Witness ==
    /\ Resolved
    /\ note_type \notin DOMAIN SCHEMA.note_types
    /\ \E name \in Keys(sync_directions) :
           /\ name \notin DOMAIN ResolverSections
           /\ InSource(name) /\ ~InTarget(name)
           /\ Direction(name) = "source_to_target"

\* C7: direction none or target_to_source puts the target's text, unchanged,
\* in the merged map; direction source_to_target puts the converted source
\* text there, whatever the target holds
C7_MergeBySide ==
    (pc = "merged" /\ target_exists) =>
        \A name \in Keys(sync_directions) :
            /\ Direction(name) \in {"none", "target_to_source"} =>
                   /\ InTarget(name)
                   /\ Has(merged_sections, name)
                   /\ Get(merged_sections, name, <<>>) = TargetText(name)
            /\ Direction(name) = "source_to_target" =>
                   /\ Has(merged_sections, name)
                   /\ Get(merged_sections, name, <<>>) =
                          convert_section_format(SCHEMA, SourceText(name),
                              note_type, name, source_platform,
                              target_platform)

\* a merge has kept the target's text of one section and replaced another
\* section's differing target text by the converted source text
C7_Witness ==
    /\ pc = "merged" /\ target_exists
    /\ \E a, b \in SectionNames :
           /\ Direction(a) = "none"
           /\ Get(merged_sections, a, <<>>) = TargetText(a)
           /\ Direction(b) = "source_to_target"
           /\ InTarget(b)
           /\ Get(merged_sections, b, <<>>) # TargetText(b)
           /\ Get(merged_sections, b, <<>>) # SourceText(b)

\* C8: a target_only section is in the merged map, with the target's text,
\* iff the target has it; a source_only section is never in the merged map
C8_MergeExclusive ==
    (pc = "merged" /\ target_exists) =>
        \A name \in Keys(sync_directions) :
            /\ Direction(name) = "target_only" =>
                   /\ Has(merged_sections, name) <=> InTarget(name)
                   /\ InTarget(name) =>
                          Get(merged_sections, name, <<>>) = TargetText(name)
            /\ Direction(name) = "source_only" =>
                   ~Has(merged_sections, name)

\* a merge has dropped a source_only section that the source holds
C8_Witness ==
    /\ pc = "merged" /\ target_exists
    /\ \E name \in SectionNames :
           /\ Direction(name) = "source_only"
           /\ InSource(name)
           /\ ~Has(merged_sections, name)

\* the schema entry convert_section_format reads for the section declares
\* a format neither for the platform synced from nor for the one synced to
NoFormatDeclared(name) ==
    \/ name \notin DOMAIN ResolverSections
    \/ DOMAIN ResolverSections[name].formats
           \cap {source_platform, target_platform} = {}

\* C29: a section for which the schema declares no <platform>_format is
\* taken as bullets on the source side and as paragraphs on the target side
\* for every pair of platforms: when it is resolved source_to_target, the
\* merged map holds what convert_bullet_to_paragraph gives for the source
\* text, also when the target platform is logseq and the source platform
\* is obsidian.
C29_DefaultBulletsToParagraphs ==
    (pc = "merged" /\ target_exists) =>
        \A name \in Keys(sync_directions) :
            (Direction(name) = "source_to_target" /\ NoFormatDeclared(name))
                => Get(merged_sections, name, <<>>)
                       = convert_bullet_to_paragraph(SourceText(name),
                                                     "obsidian")

\* a sync from obsidian to logseq has resolved a section without declared
\* formats source_to_target, and the merged map holds the bullets of the
\* source text as one paragraph
C29_Witness ==
    /\ pc = "merged" /\ target_exists
    /\ source_platform = "obsidian"
    /\ target_platform = "logseq"
    /\ \E name \in SectionNames :
           /\ Direction(name) = "source_to_target"
           /\ NoFormatDeclared(name)
           /\ SourceText(name) = <<"-"," ","a",NL," "," ","-"," ","b">>
           /\ Get(merged_sections, name, <<>>) = <<"a", " ", "b">>

---------------------------------------------------------------------------
(* The format converter on its own *)

\* the lines a text handed to the converter is made of
LinePool ==
    { <<"-", " ", "a">>,
      <<" ", " ", "-", " ", "b">>,
      <<" ", "-", " ", "d">>,
      Fence,
      <<>>,
      <<"#", " ", "h">>,
      <<"c">>,
      <<">", " ", "q">> }

ConverterTexts ==
    {Join(ls, <<NL>>) : ls \in UNION {[1..n -> LinePool] : n \in 1..MaxLines}}

\* the <platform>_format keys a schema file gives the section notes
FormatChoices ==
    UNION {[ks -> Formats] : ks \in SUBSET {"logseq", "obsidian"}}

FormatSchema(formats) ==
    [note_types |->
        ("note" :> ("sections" :>
            ("notes" :> Entry("sync" :> TRUE, formats))))]

InitConvert ==
    /\ pc = "convert"
    /\ \E f \in FormatChoices : SCHEMA = FormatSchema(f)
    /\ note_type = "note"
    /\ source_platform = "logseq"
    /\ target_platform = "obsidian"
    /\ target_exists = FALSE
    /\ source_sections = <<>>
    /\ target_sections = <<>>
    /\ sync_directions = <<>>
    /\ merged_sections = <<>>
    /\ section_content \in ConverterTexts
    /\ converted = <<>>
    /\ IdleMeta
    /\ IdleAux

\* a call of convert_section_format for the section notes
ConvertSectionFormat ==
    /\ pc = "convert"
    /\ converted' = convert_section_format(SCHEMA, section_content, note_type,
                                           "notes", source_platform,
                                           target_platform)
    /\ pc' = "converted"
    /\ UNCHANGED <<syncVars, section_content, metaVars, auxVars>>

NextConvert == ConvertSectionFormat

SpecConvert == InitConvert /\ [][NextConvert]_vars

\* the formats the schema file declares for the section notes
DeclaredFormats == SCHEMA.note_types["note"]["sections"]["notes"].formats

\* the format resolved for the source side and for the target side
SourceStyle ==
    IF source_platform \in DOMAIN DeclaredFormats
    THEN DeclaredFormats[source_platform] ELSE "bullets"

TargetStyle ==
    IF target_platform \in DOMAIN DeclaredFormats
    THEN DeclaredFormats[target_platform] ELSE "paragraphs"

IsFenceLine(line) == StartsWith(Strip(line), Fence)

\* the fenced regions of lines from line i on: pairs of an opening delimiter
\* line and the delimiter line that closes it
RECURSIVE FencedRegions(_, _)
FencedRegions(lines, i) ==
    LET opens == {o \in i..Len(lines) : IsFenceLine(lines[o])}
    IN  IF opens = {} THEN {}
        ELSE LET o      == CHOOSE x \in opens : \A y \in opens : x <= y
                 closes == {c \in (o + 1)..Len(lines) : IsFenceLine(lines[c])}
             IN  IF closes = {} THEN {}
                 ELSE LET c == CHOOSE x \in closes : \A y \in closes : x <= y
                      IN  {<<o, c>>} \cup FencedRegions(lines, c + 1)

\* part occurs in whole as a run of consecutive lines
OccursIn(part, whole) ==
    \E k \in 0..(Len(whole) - Len(part)) :
        SubSeq(whole, k + 1, k + Len(part)) = part

StylePairs ==
    { <<"bullets", "paragraphs">>, <<"paragraphs", "bullets">>,
      <<"bullets", "blockquotes">>, <<"blockquotes", "bullets">> }

\* C5: for every style pair the lines from an opening fence delimiter through
\* its closing delimiter appear in the output as the same run of lines,
\* nothing inserted between them and none dropped
C5_FencePreserved ==
    (pc = "converted" /\ <<SourceStyle, TargetStyle>> \in StylePairs) =>
        LET lines == SplitLines(section_content)
        IN  \A r \in FencedRegions(lines, 1) :
                OccursIn(SubSeq(lines, r[1], r[2]), SplitLines(converted))

\* C6: convert_section_format returns the text unchanged whenever the format
\* resolved for the source side equals the format resolved for the target
\* side
C6_SameFormatIdentity ==
    (pc = "converted" /\ SourceStyle = TargetStyle) =>
        converted = section_content

\* a text with a bullet, a fence and a blank line has been returned unchanged
\* for a section whose two sides are both declared as bullets
C6_Witness ==
    /\ pc = "converted"
    /\ SourceStyle = "bullets" /\ TargetStyle = "bullets"
    /\ section_content = Join(<<<<"-", " ", "a">>, <<>>, Fence>>, <<NL>>)
    /\ converted = section_content

\* bullets are converted to paragraphs
BulletsToParagraphs ==
    pc = "converted" /\ SourceStyle = "bullets" /\ TargetStyle = "paragraphs"

\* one line of the grouping as stated: a blank line ends the paragraph, a
\* heading line ends it and passes through, a line that begins with
\* whitespace goes onto the paragraph, any other line begins a paragraph
grouped_line(st, line) ==
    IF Strip(line) = <<>> THEN Flush(st)
    ELSE IF StartsWith(Strip(line), <<"#">>)
    THEN [Flush(st) EXCEPT !.paragraphs = Append(@, line)]
    ELSE IF IsSpace(Head(line))
    THEN IF st.current # <<>>
         THEN [st EXCEPT !.current = @ \o <<" ">> \o strip_bullet(line)]
         ELSE [st EXCEPT !.current = strip_bullet(line)]
    ELSE [Flush(st) EXCEPT !.current = strip_bullet(line)]

RECURSIVE grouped_loop(_, _)
grouped_loop(st, lines) ==
    IF lines = <<>> THEN st
    ELSE grouped_loop(grouped_line(st, Head(lines)), Tail(lines))

\* the paragraphs of a text as stated
grouped(text) ==
    Flush(grouped_loop([paragraphs |-> <<>>, current |-> <<>>,
                        in_code_block |-> FALSE], SplitLines(text))).paragraphs

NoFenceLine(text) ==
    \A i \in 1..Len(SplitLines(text)) : ~IsFenceLine(SplitLines(text)[i])

\* C22: bullets to paragraphs, for a text without code fences: every line
\* that is not blank, not a heading and has no leading whitespace starts a
\* new paragraph with its bullet marker stripped, every line with leading
\* whitespace is joined with a space onto the current paragraph, and the
\* paragraphs are separated by a blank line.
C22_BulletGrouping ==
    (BulletsToParagraphs /\ NoFenceLine(section_content)) =>
        converted = Join(grouped(section_content), <<NL, NL>>)

\* line i of lines begins a paragraph and comes before the first code fence
BulletBeforeFence(lines, i) ==
    /\ Strip(lines[i]) # <<>>
    /\ ~IsSpace(Head(lines[i]))
    /\ ~StartsWith(lines[i], <<"#">>)
    /\ \A k \in 1..i : ~IsFenceLine(lines[k])
    /\ \E j \in (i + 1)..Len(lines) : IsFenceLine(lines[j])

\* in out, a line that begins with text comes before the first code fence
ComesBeforeFence(text, out) ==
    \E p \in 1..Len(out) :
        /\ StartsWith(out[p], text)
        /\ \A q \in 1..p : ~IsFenceLine(out[q])

\* C30: bullets to paragraphs keeps the order of the input: paragraphs,
\* heading lines and code-fence lines come out in the order of the lines they
\* come from; a bullet that precedes a code fence in the input precedes that
\* fence in the output.
C30_OrderPreserved ==
    BulletsToParagraphs =>
        \A i \in 1..Len(SplitLines(section_content)) :
            BulletBeforeFence(SplitLines(section_content), i) =>
                ComesBeforeFence(strip_bullet(SplitLines(section_content)[i]),
                                 SplitLines(converted))

---------------------------------------------------------------------------
(* Frontmatter merger *)

\* CONFIG[platform]["required_yaml"]
required_yaml(plat) ==
    CASE plat = "logseq" -> <<"title", "type">>
      [] plat = "obsidian" -> <<"title", "tags", "created">>
      [] plat = "quarto" -> <<"title", "format", "date", "categories">>

Range(seq) == {seq[i] : i \in 1..Len(seq)}

\* metadata values: a string (its characters) or a list (its items)
Str(chars) == [kind |-> "str", val |-> chars]
List(items) == [kind |-> "list", val |-> items]

Lowers ==
    <<"a","b","c","d","e","f","g","h","i","j","k","l","m",
      "n","o","p","q","r","s","t","u","v","w","x","y","z">>

Uppers ==
    <<"A","B","C","D","E","F","G","H","I","J","K","L","M",
      "N","O","P","Q","R","S","T","U","V","W","X","Y","Z">>

IsLetter(c) == c \in Range(Lowers) \cup Range(Uppers)

IndexIn(seq, c) == CHOOSE i \in 1..Len(seq) : seq[i] = c

LowerChar(c) == IF c \in Range(Uppers) THEN Lowers[IndexIn(Uppers, c)] ELSE c

UpperChar(c) == IF c \in Range(Lowers) THEN Uppers[IndexIn(Lowers, c)] ELSE c

\* str.lower()
Lower(s) == [i \in 1..Len(s) |-> LowerChar(s[i])]

\* str.title(): the first letter of every run of letters in upper case, the
\* other letters of the run in lower case
Title(s) ==
    [i \in 1..Len(s) |->
        IF ~IsLetter(s[i]) THEN s[i]
        ELSE IF i > 1 /\ IsLetter(s[i - 1]) THEN LowerChar(s[i])
        ELSE UpperChar(s[i])]

\* str.replace("-", " ")
HyphensToSpaces(s) == [i \in 1..Len(s) |-> IF s[i] = "-" THEN " " ELSE s[i]]

\* Path(file_path).stem: the last path component without its last suffix
Stem(path) ==
    LET slashes == {i \in 1..Len(path) : path[i] = "/"}
        name    == IF slashes = {} THEN path
                   ELSE From(path, (CHOOSE i \in slashes :
                                        \A j \in slashes : j <= i) + 1)
        dots    == {i \in 1..Len(name) : name[i] = "."}
        dot     == IF dots = {} THEN 0
                   ELSE CHOOSE i \in dots : \A j \in dots : j <= i
    IN  IF dot > 1 /\ dot < Len(name) THEN SubSeq(name, 1, dot - 1) ELSE name

\* source_meta.get("type", "note").lower()
detected_type(source) ==
    Lower(Get(source, "type", Str(<<"n", "o", "t", "e">>)).val)

\* the body of the first loop of merge_frontmatter for one source item
update_from_source_always(m, key, value, target, plat) == Put(m, key, value)

update_from_source(m, key, value, target, plat) ==
    IF key \in Range(required_yaml(plat)) /\ Has(target, key) THEN m
    ELSE Put(m, key, value)

RECURSIVE update_loop(_, _, _, _)
update_loop(m, items, target, plat) ==
    IF items = <<>> THEN m
    ELSE update_loop(update_from_source(m, Head(items).k, Head(items).v,
                                        target, plat),
                     Tail(items), target, plat)

\* the value merge_frontmatter gives a required key that is not in merged
default_value_empty(key, source, path, date) == Str(<<>>)

default_value_own_key(key, source, path, date) ==
    IF key = "title" /\ path # <<>> /\ Stem(path) # <<>>
    THEN Str(Title(HyphensToSpaces(Stem(path))))
    ELSE IF key = "date" \/ key = "created" THEN Str(date)
    ELSE IF key = "format" THEN Str(<<"h", "t", "m", "l">>)
    ELSE IF key = "type" THEN Str(detected_type(source))
    ELSE IF key = "tags" \/ key = "categories" THEN List(<<>>)
    ELSE Str(<<>>)

default_value(key, source, path, date) ==
    IF key = "title" /\ path # <<>> /\ Stem(path) # <<>>
    THEN Str(Title(HyphensToSpaces(Stem(path))))
    ELSE IF key = "date" \/ key = "created" THEN Str(date)
    ELSE IF key = "format" THEN Str(<<"h", "t", "m", "l">>)
    ELSE IF key = "type" THEN Str(detected_type(source))
    ELSE IF key = "tags" \/ key = "categories"
    THEN IF key = "tags" /\ Has(source, "categories")
         THEN Get(source, "categories", List(<<>>))
         ELSE IF key = "categories" /\ Has(source, "tags")
         THEN Get(source, "tags", List(<<>>))
         ELSE List(<<>>)
    ELSE Str(<<>>)

\* the body of the second loop of merge_frontmatter for one required key
require_key_always(m, key, source, path, date) ==
    Put(m, key, default_value(key, source, path, date))

require_key(m, key, source, path, date) ==
    IF Has(m, key) THEN m
    ELSE Put(m, key, default_value(key, source, path, date))

RECURSIVE required_loop(_, _, _, _, _)
required_loop(m, keys, source, path, date) ==
    IF keys = <<>> THEN m
    ELSE required_loop(require_key(m, Head(keys), source, path, date),
                       Tail(keys), source, path, date)

\* merge_frontmatter(source_meta, target_meta, platform, file_path), with the
\* date datetime.now() gives
merge_frontmatter(source, target, plat, path, date) ==
    LET updated  == update_loop(target, source, target, plat)
        required == required_loop(updated, required_yaml(plat), source, path,
                                  date)
    IN  IF plat = "quarto" /\ Has(source, "tags")
           /\ ~Has(required, "categories")
        THEN Put(required, "categories", Get(source, "tags", List(<<>>)))
        ELSE required

---------------------------------------------------------------------------
(* The frontmatter merger on its own *)

MetaKeyOrder ==
    <<"title", "type", "tags", "categories", "created", "date", "format",
      "author">>

\* the value the source file holds under each key
SourceValue ==
    [key \in Range(MetaKeyOrder) |->
        CASE key = "title" -> Str(<<"N", "e", "w">>)
          [] key = "type" -> Str(<<"P", "e", "r", "s", "o", "n">>)
          [] key = "tags" -> List(<<"a", "b">>)
          [] key = "categories" -> List(<<"c">>)
          [] key = "created" -> Str(<<"2", "0", "2", "5">>)
          [] key = "date" -> Str(<<"2", "0", "2", "4">>)
          [] key = "format" -> Str(<<"p", "d", "f">>)
          [] key = "author" -> Str(<<"s", "r", "c">>)]

\* the value the target file holds under each key
TargetValue ==
    [key \in Range(MetaKeyOrder) |->
        CASE key = "title" -> Str(<<"O", "l", "d">>)
          [] key = "type" -> Str(<<"b", "o", "o", "k">>)
          [] key = "tags" -> List(<<"t">>)
          [] key = "categories" -> List(<<>>)
          [] key = "created" -> Str(<<"2", "0", "2", "3">>)
          [] key = "date" -> Str(<<"2", "0", "2", "2">>)
          [] key = "format" -> Str(<<"d", "o", "c", "x">>)
          [] key = "author" -> Str(<<"t", "g", "t">>)]

MetaKeySets ==
    {ks \in SUBSET Range(MetaKeyOrder) : Cardinality(ks) <= MaxMetaKeys}

\* file paths handed to merge_frontmatter; <<>> is no path
FilePaths ==
    { <<>>,
      <<"m","y","-","n","o","t","e",".","m","d">>,
      <<"p","o","s","t","s","/","f","o","o","-","B","A","R",".","q","m","d">> }

Dates == { <<"2","0","2","6","-","1","1","-","0","4">> }

InitMeta ==
    /\ pc = "merge_meta"
    /\ IdleSync
    /\ IdleConv
    /\ IdleAux
    /\ \E ks \in MetaKeySets : source_meta = DictOf(MetaKeyOrder, ks, SourceValue)
    /\ \E ks \in MetaKeySets : target_meta = DictOf(MetaKeyOrder, ks, TargetValue)
    /\ platform \in Platforms
    /\ file_path \in FilePaths
    /\ today \in Dates
    /\ merged = <<>>

\* a call of merge_frontmatter
MergeFrontmatter ==
    /\ pc = "merge_meta"
    /\ merged' = merge_frontmatter(source_meta, target_meta, platform,
                                   file_path, today)
    /\ pc' = "merged_meta"
    /\ UNCHANGED <<syncVars, convVars, source_meta, target_meta, platform,
                   file_path, today, auxVars>>

NextMeta == MergeFrontmatter

SpecMeta == InitMeta /\ [][NextMeta]_vars

---------------------------------------------------------------------------
(* Properties of the frontmatter merger *)

MetaMerged == pc = "merged_meta"

Required == Range(required_yaml(platform))

\* the required keys that neither side supplies
Missing == Required \ (Keys(source_meta) \cup Keys(target_meta))

MergedValue(key) == Get(merged, key, Str(<<"?">>))

\* C9: a required key already in the target keeps the target's value; every
\* other source key holds the source's value in the result; every target key
\* absent from the source is kept unchanged
C9_MergeFrame ==
    MetaMerged =>
        /\ \A key \in Keys(source_meta) :
               /\ Has(merged, key)
               /\ MergedValue(key) =
                      IF key \in Required /\ Has(target_meta, key)
                      THEN Get(target_meta, key, Str(<<>>))
                      ELSE Get(source_meta, key, Str(<<>>))
        /\ \A key \in Keys(target_meta) \ Keys(source_meta) :
               /\ Has(merged, key)
               /\ MergedValue(key) = Get(target_meta, key, Str(<<>>))

\* both sides hold title and author with different values: the result keeps
\* the target's required title and takes the source's author
C9_Witness ==
    /\ MetaMerged
    /\ Keys(source_meta) = {"title", "author"}
    /\ Keys(target_meta) = {"title", "author"}
    /\ MergedValue("title") = TargetValue["title"]
    /\ MergedValue("author") = SourceValue["author"]
    /\ SourceValue["title"] # TargetValue["title"]
    /\ SourceValue["author"] # TargetValue["author"]

\* the title derived from the base name of a given file path
TitleDefaults(key) ==
    /\ key = "title"
    /\ file_path # <<>>

\* the derived title, the html format and the detected type of C10
NamedDefaultsHold ==
    /\ \A key \in Required : Has(merged, key)
    /\ \A key \in Missing :
           /\ TitleDefaults(key) =>
                  MergedValue(key) =
                      Str(Title(HyphensToSpaces(Stem(file_path))))
           /\ key = "format" => MergedValue(key) = Str(<<"h", "t", "m", "l">>)
           /\ key = "type" =>
                  MergedValue(key) =
                      Str(IF Has(source_meta, "type")
                          THEN Lower(Get(source_meta, "type", Str(<<>>)).val)
                          ELSE <<"n", "o", "t", "e">>)
    /\ (file_path = <<"m","y","-","n","o","t","e",".","m","d">>
        /\ "title" \in Missing)
           => MergedValue("title") = Str(<<"M","y"," ","N","o","t","e">>)

\* C10 as stated: the result holds every required key; a missing title is
\* derived from the file's base name, format defaults to html, type to the
\* detected type, and any other missing required key to an empty string or
\* an empty sequence
C10_DefaultsElseEmpty ==
    MetaMerged =>
        /\ NamedDefaultsHold
        /\ \A key \in Missing :
               (~TitleDefaults(key) /\ key \notin {"format", "type"}) =>
                   MergedValue(key) \in {Str(<<>>), List(<<>>)}

\* C10 amended: the result holds every required key; a missing title is
\* derived from the file's base name when a path is given, format defaults
\* to html, type to the detected type, date and created to the current date,
\* tags and categories to the source's counterpart key when the source has
\* it and else to an empty sequence, and a title without a path to an empty
\* string
C10_RequiredDefaults ==
    MetaMerged =>
        /\ NamedDefaultsHold
        /\ \A key \in Missing :
               /\ key \in {"date", "created"} => MergedValue(key) = Str(today)
               /\ key = "tags" =>
                      MergedValue(key) =
                          Get(source_meta, "categories", List(<<>>))
               /\ key = "categories" =>
                      MergedValue(key) = Get(source_meta, "tags", List(<<>>))
               /\ (key = "title" /\ file_path = <<>>) =>
                      MergedValue(key) = Str(<<>>)

\* a source holding only tags has been merged into an empty target for
\* quarto with the path my-note.md: title, format, date and categories were
\* all missing and have been given their defaults
C10_Witness ==
    /\ MetaMerged
    /\ platform = "quarto"
    /\ Keys(source_meta) = {"tags"}
    /\ target_meta = <<>>
    /\ file_path = <<"m","y","-","n","o","t","e",".","m","d">>
    /\ MergedValue("title") = Str(<<"M","y"," ","N","o","t","e">>)
    /\ MergedValue("format") = Str(<<"h", "t", "m", "l">>)
    /\ MergedValue("date") = Str(today)
    /\ MergedValue("categories") = SourceValue["tags"]

---------------------------------------------------------------------------
(* The frontmatter merger applied again to its own result *)

\* the key sets of a mapping that holds every required key of plat
CompleteKeySets(plat) ==
    {Range(required_yaml(plat)) \cup extra : extra \in MetaKeySets}

\* the dates datetime.now() gives when the merge is run again
LaterDates == Dates \cup { <<"2","0","2","6","-","1","1","-","0","5">> }

\* either one complete mapping on both sides, or any two mappings
InitRemerge ==
    /\ pc = "merge_meta"
    /\ IdleSync
    /\ IdleConv
    /\ IdleAux
    /\ platform \in Platforms
    /\ \/ /\ \E ks \in CompleteKeySets(platform) :
                \E val \in {SourceValue, TargetValue} :
                    source_meta = DictOf(MetaKeyOrder, ks, val)
          /\ target_meta = source_meta
       \/ /\ \E ks \in MetaKeySets :
                source_meta = DictOf(MetaKeyOrder, ks, SourceValue)
          /\ \E ks \in MetaKeySets :
                target_meta = DictOf(MetaKeyOrder, ks, TargetValue)
    /\ file_path \in FilePaths
    /\ today \in Dates
    /\ merged = <<>>

\* sync_file run again on the same source: the metadata of the target file
\* is now the previous result, and merge_frontmatter is called with it
MergeFrontmatterAgain ==
    /\ pc = "merged_meta"
    /\ today' \in LaterDates
    /\ target_meta' = merged
    /\ merged' = merge_frontmatter(source_meta, merged, platform, file_path,
                                   today')
    /\ pc' = "remerged_meta"
    /\ UNCHANGED <<syncVars, convVars, source_meta, platform, file_path,
                   auxVars>>

NextRemerge == MergeFrontmatter \/ MergeFrontmatterAgain

SpecRemerge == InitRemerge /\ [][NextRemerge]_vars

MetaRemerged == pc = "remerged_meta"

\* source and target are one mapping that holds every required key
CompleteSelfMerge ==
    /\ MetaMerged
    /\ source_meta = target_meta
    /\ Required \subseteq Keys(source_meta)

\* C11: merging a mapping that holds every required key of the platform
\* with itself gives exactly the keys of the mapping with the same values,
\* and merging the same source again into a previous merge result gives
\* that result unchanged
C11_MergeIdempotent ==
    /\ CompleteSelfMerge =>
           /\ Keys(merged) = Keys(source_meta)
           /\ \A key \in Keys(source_meta) :
                  MergedValue(key) = Get(source_meta, key, Str(<<>>))
    /\ MetaRemerged => merged = target_meta

\* a mapping holding the four required keys of quarto and an author has
\* been merged with itself and, on a later date, merged again into the
\* result: both results are the mapping itself
C11_Witness ==
    /\ MetaRemerged
    /\ platform = "quarto"
    /\ Keys(source_meta) = {"title", "format", "date", "categories", "author"}
    /\ target_meta = source_meta
    /\ today # <<"2","0","2","6","-","1","1","-","0","4">>
    /\ merged = source_meta

\* C12: a required key among tags and categories that neither loop input
\* supplies takes the value of its counterpart key in the source when the
\* source has the counterpart, and else an empty sequence; a source holding
\* only tags [a, b] merged into an empty target toward quarto gives
\* categories [a, b]
C12_CrossPopulate ==
    MetaMerged =>
        /\ ("tags" \in Missing /\ Has(source_meta, "categories")) =>
               MergedValue("tags") = Get(source_meta, "categories", Str(<<>>))
        /\ ("tags" \in Missing /\ ~Has(source_meta, "categories")) =>
               MergedValue("tags") = List(<<>>)
        /\ ("categories" \in Missing /\ Has(source_meta, "tags")) =>
               MergedValue("categories") = Get(source_meta, "tags", Str(<<>>))
        /\ ("categories" \in Missing /\ ~Has(source_meta, "tags")) =>
               MergedValue("categories") = List(<<>>)
        /\ (platform = "quarto" /\ target_meta = <<>>
            /\ source_meta = <<[k |-> "tags", v |-> List(<<"a", "b">>)]>>) =>
               MergedValue("categories") = List(<<"a", "b">>)

\* a source holding only categories [c] has been merged into a target
\* holding only a title toward obsidian: tags was missing and has taken the
\* source's categories
C12_Witness ==
    /\ MetaMerged
    /\ platform = "obsidian"
    /\ Keys(source_meta) = {"categories"}
    /\ Keys(target_meta) = {"title"}
    /\ MergedValue("tags") = List(<<"c">>)

\* C13: toward quarto, when the source has tags and the target has a
\* categories key with an empty value, the merged categories are the
\* source's tags
C13_BackfillUnsetCategories ==
    (/\ MetaMerged
     /\ platform = "quarto"
     /\ Has(source_meta, "tags")
     /\ Has(target_meta, "categories")
     /\ Get(target_meta, "categories", Str(<<"?">>)) \in
            {List(<<>>), Str(<<>>)})
        => MergedValue("categories") = Get(source_meta, "tags", Str(<<>>))

---------------------------------------------------------------------------
(* The folder of a note in the obsidian vault *)

\* str.split(sep) for a separator of one character
RECURSIVE Split(_, _)
Split(s, sep) ==
    IF \A i \in 1..Len(s) : s[i] # sep THEN <<s>>
    ELSE LET i == CHOOSE j \in 1..Len(s) :
                      s[j] = sep /\ \A h \in 1..(j - 1) : s[h] # sep
         IN  <<SubSeq(s, 1, i - 1)>> \o Split(From(s, i + 1), sep)

\* CONFIG["obsidian"]["folders"]
folders ==
    << [k |-> <<"p","e","r","s","o","n">>, v |-> "People"],
       [k |-> <<"b","o","o","k">>, v |-> "Books"],
       [k |-> <<"a","r","t","i","c","l","e">>, v |-> "Articles"],
       [k |-> <<"p","l","a","c","e">>, v |-> "Places"],
       [k |-> <<"o","r","g","a","n","i","z","a","t","i","o","n">>,
        v |-> "Organizations"],
       [k |-> <<"d","e","f","a","u","l","t">>, v |-> "Notes"] >>

\* metadata.get('tags', []), a string split at its commas and stripped
tag_list(meta) ==
    LET tags == Get(meta, "tags", List(<<>>))
    IN  IF tags.kind = "str"
        THEN LET parts == Split(tags.val, ",")
             IN  [i \in 1..Len(parts) |-> Strip(parts[i])]
        ELSE tags.val

\* the loop over the tags: the folder of the first tag that is a folder key
RECURSIVE tag_folder(_)
tag_folder(tags) ==
    IF tags = <<>> THEN Get(folders, <<"d","e","f","a","u","l","t">>, "")
    ELSE IF Has(folders, Lower(Head(tags)))
         THEN Get(folders, Lower(Head(tags)), "")
         ELSE tag_folder(Tail(tags))

\* metadata.get('type', 'default').lower()
folder_note_type(meta) ==
    Lower(Get(meta, "type", Str(<<"d","e","f","a","u","l","t">>)).val)

get_target_folder(meta, plat) ==
    IF plat # "obsidian" THEN ""
    ELSE IF Has(folders, folder_note_type(meta))
         THEN Get(folders, folder_note_type(meta), "")
         ELSE tag_folder(tag_list(meta))

\* the type values of the notes handed to get_target_folder
FolderTypes ==
    { Str(<<"P","e","r","s","o","n">>), Str(<<"b","o","o","k">>),
      Str(<<"e","s","s","a","y">>), Str(<<"D","e","f","a","u","l","t">>),
      Str(<<>>) }

\* the tags values: lists of tags and comma-separated strings
FolderTags ==
    { List(<<>>),
      List(<< <<"m","i","s","c">> >>),
      List(<< <<"m","i","s","c">>, <<"B","o","o","k">> >>),
      List(<< <<"p","l","a","c","e">>, <<"b","o","o","k">> >>),
      List(<< <<"d","e","f","a","u","l","t">>, <<"b","o","o","k">> >>),
      Str(<<"a","r","t","i","c","l","e">>),
      Str(<<"m","i","s","c",","," ","P","l","a","c","e">>),
      Str(<<"m","i","s","c",",","x">>) }

\* the metadata of a note: type and tags each present or not
FolderMetadata ==
    {DictOf(<<"type", "tags">>, ks, [key \in {"type", "tags"} |->
                                        IF key = "type" THEN t ELSE g]) :
        ks \in SUBSET {"type", "tags"}, t \in FolderTypes, g \in FolderTags}

InitFolder ==
    /\ pc = "folder"
    /\ IdleSync
    /\ IdleConv
    /\ IdleMeta
    /\ IdleBody
    /\ IdleParse
    /\ IdleTransform
    /\ IdleBatch
    /\ metadata \in FolderMetadata
    /\ target_folder = ""

\* a call of get_target_folder
GetTargetFolder ==
    /\ pc = "folder"
    /\ \E plat \in Platforms :
           /\ platform' = plat
           /\ target_folder' = get_target_folder(metadata, plat)
    /\ pc' = "folder_done"
    /\ UNCHANGED <<syncVars, convVars, source_meta, target_meta, file_path,
                   today, merged, metadata, bodyVars, parseVars,
                   transformVars, batchVars>>

NextFolder == GetTargetFolder

SpecFolder == InitFolder /\ [][NextFolder]_vars

FolderKeys == Keys(folders)

FolderOf(key) == Get(folders, key, "")

\* the tags of the note that are folder keys once lowercased, in order
MatchingTags == SelectSeq(tag_list(metadata), LAMBDA t : Lower(t) \in FolderKeys)

\* C14: for obsidian the folder is the table entry of the lowercased type
\* when the note has a type that is a table key; otherwise, also when the
\* note has no type, it is the entry of the first tag that is a table key;
\* and the default entry only when no tag is a table key either
C14_FolderByTypeThenTags ==
    (pc = "folder_done" /\ platform = "obsidian") =>
        IF /\ Has(metadata, "type")
           /\ Lower(Get(metadata, "type", Str(<<>>)).val) \in FolderKeys
        THEN target_folder =
                 FolderOf(Lower(Get(metadata, "type", Str(<<>>)).val))
        ELSE IF MatchingTags # <<>>
        THEN target_folder = FolderOf(Lower(Head(MatchingTags)))
        ELSE target_folder = FolderOf(<<"d","e","f","a","u","l","t">>)

---------------------------------------------------------------------------
(* Sections of a body: extract_sections and reconstruct_content *)

\* how many lines a body handed to extract_sections has at most
MaxBodyLines == 3

\* re.match(r'^##\s+', line)
is_section_heading(line) ==
    Len(line) >= 3 /\ line[1] = "#" /\ line[2] = "#" /\ IsSpace(line[3])

\* str.replace(' ', '_')
SpacesToUnderscores(s) == [i \in 1..Len(s) |-> IF s[i] = " " THEN "_" ELSE s[i]]

\* re.sub(r'^##\s+', '', line).lower().replace(' ', '_')
section_name_of(line) ==
    LET rest == From(line, 3)
    IN  SpacesToUnderscores(Lower(From(rest, LeadingSpace(rest) + 1)))

\* the name of the section before the first heading
ContentName == <<"c","o","n","t","e","n","t">>

\* sections[current_section] = '\n'.join(section_content).strip(), when
\* lines have been collected
close_section(st) ==
    IF st.section_content = <<>> THEN st
    ELSE [st EXCEPT !.sections = Put(st.sections, st.current_section,
                                     Strip(Join(st.section_content, <<NL>>))),
                    !.section_content = <<>>]

\* the body of the loop of extract_sections for one line
extract_line(st, line) ==
    IF is_section_heading(line)
    THEN [close_section(st) EXCEPT !.current_section = section_name_of(line)]
    ELSE [st EXCEPT !.section_content = Append(st.section_content, line)]

RECURSIVE extract_loop(_, _)
extract_loop(st, lines) ==
    IF lines = <<>> THEN st
    ELSE extract_loop(extract_line(st, Head(lines)), Tail(lines))

extract_sections(text) ==
    close_section(
        extract_loop([sections |-> <<>>, current_section |-> ContentName,
                      section_content |-> <<>>],
                     SplitLines(text))).sections

\* str.capitalize()
Capitalize(s) ==
    [i \in 1..Len(s) |-> IF i = 1 THEN UpperChar(s[i]) ELSE LowerChar(s[i])]

\* " ".join(word.capitalize() for word in section_name.split('_'))
heading_name(section_name) ==
    LET words == Split(section_name, "_")
    IN  Join([i \in 1..Len(words) |-> Capitalize(words[i])], <<" ">>)

\* what reconstruct_content appends for one entry of sections
section_block(entry) ==
    <<"#", "#", " ">> \o heading_name(entry.k) \o <<NL, NL>> \o entry.v

reconstruct_content(secs) ==
    LET main   == IF Has(secs, ContentName)
                  THEN <<Get(secs, ContentName, <<>>)>> ELSE <<>>
        others == SelectSeq(secs, LAMBDA e :
                                e.k # ContentName /\ Strip(e.v) # <<>>)
    IN  Join(main \o [i \in 1..Len(others) |-> section_block(others[i])],
             <<NL, NL>>)

\* the lines bodies are made of
BodyLines ==
    { <<"#","#"," ","A">>, <<"#","#"," ","a">>, <<"#","#"," ","B"," ","c">>,
      <<"#","#"," ","C","o","n","t","e","n","t">>,
      <<"x">>, <<"y"," ","z">>, <<>> }

Bodies ==
    {Join(ls, <<NL>>) :
        ls \in UNION {[1..n -> BodyLines] : n \in 1..MaxBodyLines}}

InitBody ==
    /\ pc = "extract"
    /\ IdleSync
    /\ IdleConv
    /\ IdleMeta
    /\ IdleFolder
    /\ IdleParse
    /\ IdleTransform
    /\ IdleBatch
    /\ body \in Bodies
    /\ sections = <<>>
    /\ reconstructed = <<>>

\* a call of extract_sections
ExtractSections ==
    /\ pc = "extract"
    /\ sections' = extract_sections(body)
    /\ pc' = "extracted"
    /\ UNCHANGED <<syncVars, convVars, metaVars, folderVars, parseVars,
                   transformVars, batchVars, body, reconstructed>>

\* a call of reconstruct_content
ReconstructContent ==
    /\ pc = "extracted"
    /\ reconstructed' = reconstruct_content(sections)
    /\ pc' = "reconstructed"
    /\ UNCHANGED <<syncVars, convVars, metaVars, folderVars, parseVars,
                   transformVars, batchVars, body, sections>>

NextBody == ExtractSections \/ ReconstructContent

SpecBody == InitBody /\ [][NextBody]_vars

\* the positions of the level-2 headings among the lines of the body
HeadingPositions ==
    {i \in 1..Len(SplitLines(body)) : is_section_heading(SplitLines(body)[i])}

\* the position of the first heading after line i, or one past the last line
NextHeading(i) ==
    LET later == {h \in HeadingPositions : h > i}
    IN  IF later = {} THEN Len(SplitLines(body)) + 1
        ELSE CHOOSE h \in later : \A g \in later : h <= g

\* the stripped text of lines i..j of the body
BodyText(i, j) == Strip(Join(SubSeq(SplitLines(body), i, j), <<NL>>))

\* the sections of the body as written: the run of lines before the first
\* heading, then every heading with the lines under it
BodySegments ==
    LET n     == Cardinality(HeadingPositions)
        heads == CHOOSE f \in [1..n -> HeadingPositions] :
                     \A i, j \in 1..n : i < j => f[i] < f[j]
        lead  == IF 1 \in HeadingPositions THEN <<>>
                 ELSE <<[name |-> ContentName,
                         text |-> BodyText(1, NextHeading(0) - 1)]>>
    IN  lead \o [i \in 1..n |->
                    [name |-> section_name_of(SplitLines(body)[heads[i]]),
                     text |-> BodyText(heads[i] + 1,
                                       NextHeading(heads[i]) - 1)]]

\* C15: the sections extracted from a body are, in order, the sections the
\* body is written in, each under its slugified heading with its own lines,
\* and the text of every section of the body occurs in the reconstructed
\* content; also when two headings have one slug or a heading has no lines
C15_RoundTrip ==
    pc = "reconstructed" =>
        /\ Len(sections) = Len(BodySegments)
        /\ \A i \in 1..Len(sections) :
               /\ sections[i].k = BodySegments[i].name
               /\ sections[i].v = BodySegments[i].text
        /\ \A i \in 1..Len(BodySegments) :
               OccursIn(BodySegments[i].text, reconstructed)

---------------------------------------------------------------------------
(* Reading a note: parse_frontmatter *)

\* how many lines an outline file handed to parse_frontmatter has at most
MaxFileLines == 3

Digits == {"0", "1", "2", "3", "4", "5", "6", "7", "8", "9"}

\* [a-zA-Z0-9_-]
IsKeyChar(c) == IsLetter(c) \/ c \in Digits \/ c \in {"_", "-"}

\* the position of the first colon of the line, 0 when it has none
FirstColon(line) ==
    IF \A i \in 1..Len(line) : line[i] # ":" THEN 0
    ELSE CHOOSE i \in 1..Len(line) :
             line[i] = ":" /\ \A h \in 1..(i - 1) : line[h] # ":"

\* the line matches ^([a-zA-Z0-9_-]+):: (.*)$
is_property_line(line) ==
    LET c == FirstColon(line)
    IN  /\ c >= 2
        /\ \A i \in 1..(c - 1) : IsKeyChar(line[i])
        /\ Len(line) >= c + 2
        /\ line[c + 1] = ":"
        /\ line[c + 2] = " "

property_key(line) == SubSeq(line, 1, FirstColon(line) - 1)

property_value(line) == From(line, FirstColon(line) + 3)

\* the spelling of the metadata keys and section names of the model
Spelling ==
    "title" :> <<"t","i","t","l","e">>
    @@ "type" :> <<"t","y","p","e">>
    @@ "tags" :> <<"t","a","g","s">>
    @@ "status" :> <<"s","t","a","t","u","s">>
    @@ "content" :> <<"c","o","n","t","e","n","t">>
    @@ "notes" :> <<"n","o","t","e","s">>
    @@ "private" :> <<"p","r","i","v","a","t","e">>
    @@ "bidirectional" :>
           <<"b","i","d","i","r","e","c","t","i","o","n","a","l">>
    @@ "note" :> <<"n","o","t","e">>
    @@ "book" :> <<"b","o","o","k">>
    @@ "created" :> <<"c","r","e","a","t","e","d">>
    @@ "date" :> <<"d","a","t","e">>
    @@ "format" :> <<"f","o","r","m","a","t">>
    @@ "categories" :> <<"c","a","t","e","g","o","r","i","e","s">>
    @@ "author" :> <<"a","u","t","h","o","r">>

\* the name spelled by the characters
Name(chars) == CHOOSE n \in DOMAIN Spelling : Spelling[n] = chars

\* the loop over property_pattern.findall(content)
RECURSIVE logseq_properties(_, _)
logseq_properties(props, lines) ==
    IF lines = <<>> THEN props
    ELSE logseq_properties(
             IF is_property_line(Head(lines))
             THEN Put(props, Name(property_key(Head(lines))),
                      Str(property_value(Head(lines))))
             ELSE props,
             Tail(lines))

\* property_pattern.sub('', content).strip()
remove_properties(lines) ==
    Strip(Join([i \in 1..Len(lines) |->
                   IF is_property_line(lines[i]) THEN <<>> ELSE lines[i]],
               <<NL>>))

\* what parse_frontmatter returns after an exception
ParseFailed == [metadata |-> <<>>, content |-> <<>>]

\* parse_frontmatter that keeps the text of a file it failed to parse
parse_frontmatter_keeps_text(f) ==
    IF ~f.readable THEN [metadata |-> <<>>, content |-> f.text]
    ELSE IF ~StartsWith(f.text, <<"-", "-", "-">>)
    THEN [metadata |-> logseq_properties(<<>>, SplitLines(f.text)),
          content |-> remove_properties(SplitLines(f.text))]
    ELSE IF f.loaded.raises THEN [metadata |-> <<>>, content |-> f.text]
    ELSE [metadata |-> f.loaded.metadata, content |-> f.loaded.content]

\* parse_frontmatter(file_path) for the file f at that path; f.loaded is
\* what frontmatter.loads gives for f.text
parse_frontmatter(f) ==
    IF ~f.readable THEN ParseFailed
    ELSE IF ~StartsWith(f.text, <<"-", "-", "-">>)
    THEN [metadata |-> logseq_properties(<<>>, SplitLines(f.text)),
          content |-> remove_properties(SplitLines(f.text))]
    ELSE IF f.loaded.raises THEN ParseFailed
    ELSE [metadata |-> f.loaded.metadata, content |-> f.loaded.content]

\* the lines outline files are made of
OutlineLines ==
    { <<"t","i","t","l","e",":",":"," ","T">>,
      <<"s","t","a","t","u","s",":",":"," ","o","k">>,
      <<"s","t","a","t","u","s",":",":">>,
      <<"t","y","p","e",":",":"," ","B","o","o","k">>,
      <<"b","o","d","y">>,
      <<>> }

OutlineTexts ==
    {Join(ls, <<NL>>) :
        ls \in UNION {[1..n -> OutlineLines] : n \in 1..MaxFileLines}}

\* frontmatter.loads is not called for the file
NotLoaded == [raises |-> FALSE, metadata |-> <<>>, content |-> <<>>]

OutlineFiles ==
    {[readable |-> TRUE, text |-> t, loaded |-> NotLoaded] : t \in OutlineTexts}

\* files that begin with ---, with what frontmatter.loads gives for them: a
\* well-formed block, and a block that is not valid YAML
YamlFiles ==
    { [readable |-> TRUE,
       text |-> <<"-","-","-",NL,"t","i","t","l","e",":"," ","T",NL,
                  "-","-","-",NL,NL,"b","o","d","y">>,
       loaded |-> [raises |-> FALSE,
                   metadata |-> <<[k |-> "title", v |-> Str(<<"T">>)]>>,
                   content |-> <<"b","o","d","y">>]],
      [readable |-> TRUE,
       text |-> <<"-","-","-",NL,"t","i","t","l","e",":"," ","[",NL,
                  "-","-","-",NL,NL,"b","o","d","y">>,
       loaded |-> [raises |-> TRUE, metadata |-> <<>>, content |-> <<>>]] }

\* a file whose open or read raises
UnreadableFiles ==
    { [readable |-> FALSE, text |-> <<"b","o","d","y">>, loaded |-> NotLoaded] }

InitParse ==
    /\ pc = "parse"
    /\ IdleSync
    /\ IdleConv
    /\ IdleMeta
    /\ IdleFolder
    /\ IdleBody
    /\ IdleTransform
    /\ IdleBatch
    /\ file \in OutlineFiles \cup YamlFiles \cup UnreadableFiles
    /\ parsed = <<>>

\* a call of parse_frontmatter
ParseFrontmatter ==
    /\ pc = "parse"
    /\ parsed' = parse_frontmatter(file)
    /\ pc' = "parsed"
    /\ UNCHANGED <<syncVars, convVars, metaVars, folderVars, bodyVars,
                   transformVars, batchVars, file>>

NextParse == ParseFrontmatter

SpecParse == InitParse /\ [][NextParse]_vars

\* the file is in the outline encoding and has been parsed
OutlineParsed ==
    pc = "parsed" /\ file.readable /\ ~StartsWith(file.text, <<"-", "-", "-">>)

\* how many lines the leading block of property lines has
RECURSIVE LeadingProperties(_)
LeadingProperties(lines) ==
    IF lines = <<>> \/ ~is_property_line(Head(lines)) THEN 0
    ELSE 1 + LeadingProperties(Tail(lines))

\* C16: the metadata of an outline file are the properties of the key::
\* value lines at its start, and a key:: value line after that leading block
\* adds nothing to the metadata and stays in the body
C16_LeadingPropertiesOnly ==
    OutlineParsed =>
        LET lines == SplitLines(file.text)
            lead  == LeadingProperties(lines)
        IN  /\ parsed.metadata =
                   logseq_properties(<<>>, SubSeq(lines, 1, lead))
            /\ \A i \in (lead + 1)..Len(lines) :
                   is_property_line(lines[i]) =>
                       OccursIn(lines[i], parsed.content)

---------------------------------------------------------------------------
(* scripts/yaml_transformer.py: transform_file *)

\* the value None
NoneValue == [kind |-> "none", val |-> <<>>]

\* the platform names handed to transform_frontmatter
TransformPlatforms == {"logseq", "obsidian", "quarto", "content"}

\* TRANSFORMATIONS: per pair of platforms the keys in order, each with the
\* lambda it is given
TRANSFORMATIONS ==
    <<"logseq", "obsidian">> :>
        << [key |-> "title", rule |-> "keep"],
           [key |-> "type", rule |-> "remove"],
           [key |-> "tags", rule |-> "split"],
           [key |-> "created", rule |-> "or_today"] >>
    @@ <<"logseq", "quarto">> :>
        << [key |-> "title", rule |-> "keep"],
           [key |-> "type", rule |-> "remove"],
           [key |-> "format", rule |-> "html"],
           [key |-> "date", rule |-> "today"],
           [key |-> "categories", rule |-> "empty_list"] >>
    @@ <<"obsidian", "logseq">> :>
        << [key |-> "title", rule |-> "keep"],
           [key |-> "tags", rule |-> "remove"],
           [key |-> "created", rule |-> "remove"],
           [key |-> "type", rule |-> "note"] >>
    @@ <<"obsidian", "quarto">> :>
        << [key |-> "title", rule |-> "keep"],
           [key |-> "tags", rule |-> "remove"],
           [key |-> "created", rule |-> "remove"],
           [key |-> "format", rule |-> "html"],
           [key |-> "date", rule |-> "meta_created"],
           [key |-> "categories", rule |-> "meta_tags"] >>
    @@ <<"quarto", "logseq">> :>
        << [key |-> "title", rule |-> "keep"],
           [key |-> "format", rule |-> "remove"],
           [key |-> "date", rule |-> "remove"],
           [key |-> "categories", rule |-> "remove"],
           [key |-> "type", rule |-> "note"] >>
    @@ <<"quarto", "obsidian">> :>
        << [key |-> "title", rule |-> "keep"],
           [key |-> "format", rule |-> "remove"],
           [key |-> "date", rule |-> "remove"],
           [key |-> "categories", rule |-> "remove"],
           [key |-> "tags", rule |-> "meta_categories"],
           [key |-> "created", rule |-> "meta_date"] >>

\* transform_func.__code__.co_argcount
co_argcount(rule) ==
    IF rule \in {"meta_created", "meta_tags", "meta_categories", "meta_date"}
    THEN 2 ELSE 1

\* the truth value Python gives x
Truthy(x) == x.kind # "none" /\ x.val # <<>>

\* the result of the lambda for the value x, the whole frontmatter meta and
\* the date datetime.now() gives
transform_func(rule, x, meta, date) ==
    CASE rule = "keep" -> x
      [] rule = "remove" -> NoneValue
      [] rule = "split" ->
             IF x.kind = "str" THEN List(Split(x.val, ",")) ELSE x
      [] rule = "or_today" -> IF Truthy(x) THEN x ELSE Str(date)
      [] rule = "html" -> Str(<<"h", "t", "m", "l">>)
      [] rule = "today" -> Str(date)
      [] rule = "empty_list" -> List(<<>>)
      [] rule = "note" -> Str(<<"n", "o", "t", "e">>)
      [] rule = "meta_created" -> Get(meta, "created", Str(date))
      [] rule = "meta_tags" -> Get(meta, "tags", List(<<>>))
      [] rule = "meta_categories" -> Get(meta, "categories", List(<<>>))
      [] rule = "meta_date" -> Get(meta, "date", Str(date))

\* the body of the first loop of transform_frontmatter for one key
transform_key_step(transformed, t, meta, date) ==
    LET result == IF Has(meta, t.key)
                  THEN transform_func(t.rule, Get(meta, t.key, NoneValue),
                                      meta, date)
                  ELSE IF co_argcount(t.rule) = 1
                  THEN transform_func(t.rule, NoneValue, meta, date)
                  ELSE NoneValue
    IN  IF result.kind = "none" THEN transformed
        ELSE Put(transformed, t.key, result)

RECURSIVE transform_loop(_, _, _, _)
transform_loop(transformed, ts, meta, date) ==
    IF ts = <<>> THEN transformed
    ELSE transform_loop(transform_key_step(transformed, Head(ts), meta, date),
                        Tail(ts), meta, date)

\* the second loop: the keys no transformation names are copied
RECURSIVE copy_other_keys(_, _, _)
copy_other_keys(transformed, items, ts) ==
    IF items = <<>> THEN transformed
    ELSE copy_other_keys(
             IF /\ \A i \in 1..Len(ts) : ts[i].key # Head(items).k
                /\ ~Has(transformed, Head(items).k)
             THEN Put(transformed, Head(items).k, Head(items).v)
             ELSE transformed,
             Tail(items), ts)

\* transform_key in TRANSFORMATIONS
transform_supported(source, target) == <<source, target>> \in DOMAIN TRANSFORMATIONS

\* transform_frontmatter: raised tells that it ended with ValueError
transform_frontmatter(meta, source, target, date) ==
    IF ~transform_supported(source, target)
    THEN [raised |-> TRUE, transformed |-> <<>>]
    ELSE LET ts == TRANSFORMATIONS[<<source, target>>]
         IN  [raised |-> FALSE,
              transformed |->
                  copy_other_keys(transform_loop(<<>>, ts, meta, date),
                                  meta, ts)]

\* a path with no file
NoFile == [exists |-> FALSE, has_frontmatter |-> FALSE, frontmatter |-> <<>>,
           rest |-> <<>>]

\* a file: the mapping of its YAML block when it begins with one that
\* yaml.safe_load accepts, and the text after the block (else the whole text)
NoteFile(has, meta, rest) ==
    [exists |-> TRUE, has_frontmatter |-> has, frontmatter |-> meta,
     rest |-> rest]

\* read_file(file_path) for the file f at that path
read_file(f) ==
    [frontmatter |-> IF f.has_frontmatter THEN f.frontmatter ELSE <<>>,
     content |-> f.rest]

\* the file write_file leaves: the block, then '---\n\n' and the content,
\* so that one newline follows the line that closes the block
write_file(meta, text) == NoteFile(TRUE, meta, <<NL>> \o text)

\* transform_file: the files it leaves and whether it raised; output_path
\* "None" stands for no output path
transform_file_unchecked(d, path, source, target, output_path, date) ==
    LET out == IF output_path = "None" THEN path ELSE output_path
        r   == read_file(d[path])
        t   == transform_frontmatter(r.frontmatter, source, target, date)
    IN  IF ~d[path].exists THEN [raised |-> TRUE, disk |-> d]
        ELSE [raised |-> t.raised,
              disk |-> [d EXCEPT ![out] =
                           write_file(IF t.raised THEN r.frontmatter
                                      ELSE t.transformed, r.content)]]

transform_file(d, path, source, target, output_path, date) ==
    LET out == IF output_path = "None" THEN path ELSE output_path
        r   == read_file(d[path])
        t   == transform_frontmatter(r.frontmatter, source, target, date)
    IN  IF ~d[path].exists \/ t.raised THEN [raised |-> TRUE, disk |-> d]
        ELSE [raised |-> FALSE,
              disk |-> [d EXCEPT ![out] = write_file(t.transformed,
                                                     r.content)]]

TransformPaths == {"in.md", "out.md"}

\* the frontmatter keys of the files handed to transform_file
TransformKeyOrder == <<"title", "type", "tags", "created", "author">>

TransformKeySets ==
    {ks \in SUBSET Range(TransformKeyOrder) : Cardinality(ks) <= MaxMetaKeys}

InputFiles ==
    {NoteFile(TRUE, DictOf(TransformKeyOrder, ks, SourceValue),
              <<NL, "b", "o", "d", "y">>) : ks \in TransformKeySets}
    \cup {NoteFile(FALSE, <<>>, <<"b", "o", "d", "y">>), NoFile}

OutputFiles ==
    {NoFile, NoteFile(TRUE, DictOf(TransformKeyOrder, {"title"}, TargetValue),
                      <<NL, "o", "l", "d">>)}

InitTransform ==
    /\ pc = "transform"
    /\ IdleSync
    /\ IdleConv
    /\ IdleMeta
    /\ IdleFolder
    /\ IdleBody
    /\ IdleParse
    /\ IdleBatch
    /\ \E in \in InputFiles, out \in OutputFiles :
           disk = [path \in TransformPaths |->
                      IF path = "in.md" THEN in ELSE out]
    /\ transform_call = <<>>
    /\ raised = FALSE

\* a call of transform_file for the file in.md
TransformFile ==
    /\ pc = "transform"
    /\ \E source \in TransformPlatforms, target \in TransformPlatforms,
          output_path \in {"None", "out.md"}, date \in Dates :
           LET result == transform_file(disk, "in.md", source, target,
                                        output_path, date)
           IN  /\ transform_call' = [source_platform |-> source,
                                     target_platform |-> target,
                                     output_path |-> output_path]
               /\ disk' = result.disk
               /\ raised' = result.raised
    /\ pc' = "transformed"
    /\ UNCHANGED <<syncVars, convVars, metaVars, folderVars, bodyVars,
                   parseVars, batchVars>>

NextTransform == TransformFile

SpecTransform == InitTransform /\ [][NextTransform]_vars

\* the pairs of platforms that TRANSFORMATIONS defines
DefinedPairs ==
    { <<"logseq", "obsidian">>, <<"logseq", "quarto">>,
      <<"obsidian", "logseq">>, <<"obsidian", "quarto">>,
      <<"quarto", "logseq">>, <<"quarto", "obsidian">> }

\* C18: a call of transform_file for a pair of platforms that is not
\* defined, a pair of equal platforms included, raises and leaves every
\* file, the output file included, as it was
C18_UndefinedPairWritesNothing ==
    [][(/\ pc = "transform"
        /\ pc' = "transformed"
        /\ <<transform_call'.source_platform,
             transform_call'.target_platform>> \notin DefinedPairs)
          => (raised' /\ disk' = disk)]_vars

\* transform_file was called for obsidian to obsidian on an existing file
\* with title and tags, without an output path: it raised and the file
\* still holds title and tags
C18_Witness ==
    /\ pc = "transformed"
    /\ raised
    /\ transform_call.source_platform = "obsidian"
    /\ transform_call.target_platform = "obsidian"
    /\ transform_call.output_path = "None"
    /\ disk["in.md"].exists
    /\ Keys(disk["in.md"].frontmatter) = {"title", "tags"}
    /\ disk["in.md"].rest = <<NL, "b", "o", "d", "y">>

\* C23: transform_frontmatter from obsidian to quarto, on metadata with tags
\* and created and with neither categories nor date, gives a result whose
\* categories are the tags and whose date is the created value
C23_TagsBecomeCategories ==
    (/\ pc = "transformed"
     /\ ~raised
     /\ transform_call.source_platform = "obsidian"
     /\ transform_call.target_platform = "quarto"
     /\ transform_call.output_path = "out.md"
     /\ disk["in.md"].exists
     /\ {"tags", "created"} \subseteq Keys(disk["in.md"].frontmatter)
     /\ Keys(disk["in.md"].frontmatter) \cap {"categories", "date"} = {})
        => /\ disk["out.md"].exists
           /\ {"categories", "date"} \subseteq Keys(disk["out.md"].frontmatter)
           /\ Get(disk["out.md"].frontmatter, "categories", NoneValue)
                  = Get(disk["in.md"].frontmatter, "tags", NoneValue)
           /\ Get(disk["out.md"].frontmatter, "date", NoneValue)
                  = Get(disk["in.md"].frontmatter, "created", NoneValue)

---------------------------------------------------------------------------
(* Paths: create_target_path *)

\* str.endswith
EndsWith(s, p) == Len(s) >= Len(p) /\ SubSeq(s, Len(s) - Len(p) + 1, Len(s)) = p

\* os.path.basename
Basename(path) ==
    LET slashes == {i \in 1..Len(path) : path[i] = "/"}
    IN  IF slashes = {} THEN path
        ELSE From(path, (CHOOSE i \in slashes : \A j \in slashes : j <= i) + 1)

\* os.path.dirname
Dirname(path) ==
    LET slashes == {i \in 1..Len(path) : path[i] = "/"}
    IN  IF slashes = {} THEN <<>>
        ELSE SubSeq(path, 1,
                    (CHOOSE i \in slashes : \A j \in slashes : j <= i) - 1)

\* os.path.join of relative paths
PathJoin(a, b) == IF a = <<>> THEN b ELSE a \o <<"/">> \o b

\* os.path.relpath of a relative path, from a directory of two components
Relpath(path, start) ==
    IF StartsWith(path, start \o <<"/">>) THEN From(path, Len(start) + 2)
    ELSE <<".", ".", "/", ".", ".", "/">> \o path

ContentPages == <<"c","o","n","t","e","n","t","/","p","a","g","e","s">>
LogseqPages == <<"l","o","g","s","e","q","/","p","a","g","e","s">>
ObsidianDir == <<"o","b","s","i","d","i","a","n">>
QuartoPosts == <<"q","u","a","r","t","o","/","p","o","s","t","s">>
QuartoVisualizations == <<"q","u","a","r","t","o","/","v","i","s","u","a","l","i","z","a","t","i","o","n","s">>

\* CONFIG[platform]['target_dir']; CONFIG has no entry for content
has_config(plat) == plat \in {"logseq", "obsidian", "quarto"}

target_dir(plat) ==
    CASE plat = "logseq" -> LogseqPages
      [] plat = "obsidian" -> ObsidianDir
      [] plat = "quarto" -> QuartoPosts

\* the filename of a quarto source: .qmd becomes .md
md_name(filename) ==
    IF EndsWith(filename, <<".", "q", "m", "d">>)
    THEN SubSeq(filename, 1, Len(filename) - 4) \o <<".", "m", "d">>
    ELSE filename

\* the filename of a visualization: .md becomes .qmd
qmd_name(filename) ==
    IF EndsWith(filename, <<".", "m", "d">>)
    THEN SubSeq(filename, 1, Len(filename) - 3) \o <<".", "q", "m", "d">>
    ELSE filename

\* metadata.get('interactive', False) or
\* 'visualization' in metadata.get('tags', [])
is_visualization(meta) ==
    LET tags == Get(meta, "tags", List(<<>>))
        word == <<"v","i","s","u","a","l","i","z","a","t","i","o","n">>
    IN  \/ Truthy(Get(meta, "interactive", NoneValue))
        \/ IF tags.kind = "str" THEN OccursIn(word, tags.val)
           ELSE \E i \in 1..Len(tags.val) : tags.val[i] = word

\* the path of a quarto target
quarto_path(filename, meta) ==
    IF is_visualization(meta)
    THEN PathJoin(QuartoVisualizations, qmd_name(filename))
    ELSE PathJoin(QuartoPosts, filename)

\* the path of an obsidian target
obsidian_path(filename, meta) ==
    PathJoin(PathJoin(ObsidianDir, get_target_folder(meta, "obsidian")),
             filename)

\* the default fallback at the end of create_target_path
fallback_path(path, plat) ==
    IF has_config(plat)
    THEN [raised |-> FALSE, path |-> PathJoin(target_dir(plat), Basename(path))]
    ELSE [raised |-> TRUE, path |-> <<>>]

\* the source directory is a quarto directory
is_quarto_dir(source_dir) ==
    \/ EndsWith(source_dir, QuartoPosts)
    \/ OccursIn(<<"/">> \o QuartoPosts \o <<"/">>, source_dir)
    \/ EndsWith(source_dir, QuartoVisualizations)
    \/ OccursIn(<<"/">> \o QuartoVisualizations \o <<"/">>, source_dir)

is_obsidian_dir(source_dir) ==
    \/ EndsWith(source_dir, ObsidianDir)
    \/ OccursIn(<<"/">> \o ObsidianDir \o <<"/">>, source_dir)

\* create_target_path(file_path, source_dir, platform, metadata): the path,
\* or raised when CONFIG has no entry for the platform
create_target_path(path, source_dir, plat, meta) ==
    LET found(q) == [raised |-> FALSE, path |-> q]
    IN  IF is_quarto_dir(source_dir)
        THEN CASE plat = "logseq" ->
                      found(PathJoin(LogseqPages, md_name(Basename(path))))
               [] plat = "content" ->
                      found(PathJoin(ContentPages, md_name(Basename(path))))
               [] plat = "obsidian" ->
                      found(obsidian_path(md_name(Basename(path)), meta))
               [] OTHER -> fallback_path(path, plat)
        ELSE IF is_obsidian_dir(source_dir)
        THEN CASE plat = "logseq" ->
                      found(PathJoin(LogseqPages, Basename(path)))
               [] plat = "content" ->
                      found(PathJoin(ContentPages, Basename(path)))
               [] plat = "quarto" -> found(quarto_path(Basename(path), meta))
               [] OTHER -> fallback_path(path, plat)
        ELSE CASE plat = "logseq" ->
                      found(PathJoin(LogseqPages, Relpath(path, source_dir)))
               [] plat = "obsidian" ->
                      found(obsidian_path(Basename(Relpath(path, source_dir)),
                                          meta))
               [] plat = "quarto" ->
                      found(quarto_path(Basename(Relpath(path, source_dir)),
                                        meta))
               [] OTHER -> fallback_path(path, plat)

\* the source directory sync_file computes paths from
sync_source_dir(source_file, source) ==
    CASE source = "content" -> ContentPages
      [] source = "obsidian" -> ObsidianDir
      [] source = "quarto" ->
             IF StartsWith(source_file, QuartoVisualizations)
             THEN QuartoVisualizations ELSE QuartoPosts
      [] OTHER -> ContentPages

---------------------------------------------------------------------------
(* sync_file *)

\* an integer as a metadata value
IntValue(n) == [kind |-> "int", val |-> n]

DigitChars == <<"0", "1", "2", "3", "4", "5", "6", "7", "8", "9">>

\* str(n) for a natural number
RECURSIVE Decimal(_)
Decimal(n) ==
    IF n < 10 THEN <<DigitChars[n + 1]>>
    ELSE Decimal(n \div 10) \o <<DigitChars[(n % 10) + 1]>>

\* str(value), as the f-string that writes a property formats it
py_str(value) ==
    CASE value.kind = "str" -> value.val
      [] value.kind = "int" -> Decimal(value.val)
      [] value.kind = "none" -> <<"N", "o", "n", "e">>
      [] value.kind = "list" ->
             <<"[">>
             \o Join([i \in 1..Len(value.val) |->
                         <<"'">> \o value.val[i] \o <<"'">>], <<",", " ">>)
             \o <<"]">>

\* the property lines written for a logseq target
RECURSIVE property_lines(_)
property_lines(meta) ==
    IF meta = <<>> THEN <<>>
    ELSE Spelling[Head(meta).k] \o <<":", ":", " ">> \o py_str(Head(meta).v)
         \o <<NL>> \o property_lines(Tail(meta))

\* the keys of the model in the order yaml.dump writes them (sorted)
YamlKeyOrder ==
    <<"author", "categories", "created", "date", "format", "status", "tags",
      "title", "type">>

\* the mapping frontmatter.loads gives for the block yaml.dump wrote
yaml_round_trip(meta) ==
    DictOf(YamlKeyOrder, Keys(meta),
           [key \in Keys(meta) |-> Get(meta, key, NoneValue)])

\* the file sync_file writes: properties, a blank line and the content for
\* logseq; else the YAML block and the content, held as what
\* frontmatter.loads gives for them
written_note(merged_meta, merged_content, target) ==
    IF target = "logseq"
    THEN [readable |-> TRUE,
          text |-> property_lines(merged_meta)
                   \o (IF merged_meta # <<>> THEN <<NL>> ELSE <<>>)
                   \o merged_content,
          loaded |-> NotLoaded]
    ELSE [readable |-> TRUE,
          text |-> <<"-", "-", "-", NL>>,
          loaded |-> [raises |-> FALSE,
                      metadata |-> yaml_round_trip(merged_meta),
                      content |-> Strip(merged_content)]]

\* a path without a file: open raises
MissingFile == [readable |-> FALSE, text |-> <<>>, loaded |-> NotLoaded]

\* sections with their names as the names of the model
InternKeys(d) == [i \in 1..Len(d) |-> [k |-> Name(d[i].k), v |-> d[i].v]]

SpellKeys(d) == [i \in 1..Len(d) |-> [k |-> Spelling[d[i].k], v |-> d[i].v]]

\* source_meta.get("type", "note").lower() raises for a value without lower
type_is_str(meta) ==
    ~Has(meta, "type") \/ Get(meta, "type", NoneValue).kind = "str"

\* what sync_file leaves when it ends with an exception at the given step
SyncRaised(step, fs, src, target_file) ==
    [raised |-> TRUE, step |-> step, fs |-> fs,
     source_meta |-> src.metadata, source_content |-> src.content,
     target_file |-> target_file, target_exists |-> FALSE,
     target_meta |-> <<>>, source_sections |-> <<>>,
     target_sections |-> <<>>, sync_directions |-> <<>>,
     merged_sections |-> <<>>, merged_meta |-> <<>>, back_sync |-> FALSE]

\* the condition of the call of sync_file at its end
back_sync_condition(directions) ==
    /\ Has(directions, "bidirectional")
    /\ \E i \in 1..Len(directions) : directions[i].v = "target_to_source"

\* the section names of source and target, which determine_sync_direction
\* iterates as a set
sync_section_names(fs, source_file, source, target) ==
    LET src  == parse_frontmatter(Get(fs, source_file, MissingFile))
        made == create_target_path(source_file,
                                   sync_source_dir(source_file, source),
                                   target, src.metadata)
    IN  IF ~type_is_str(src.metadata) \/ made.raised \/ ~Has(fs, made.path)
        THEN {}
        ELSE Keys(InternKeys(extract_sections(src.content)))
             \cup Keys(InternKeys(extract_sections(
                      parse_frontmatter(Get(fs, made.path, MissingFile))
                          .content)))

\* sync_file from the write on, were the target's sections written back to
\* the source file when a section is resolved target_to_source
sync_write_back(c, src, path, exists, tgt, ssec, tsec, dirs, msec, mmeta) ==
    [raised |-> FALSE, step |-> "done",
     fs |-> Put(IF \E i \in 1..Len(dirs) : dirs[i].v = "target_to_source"
                THEN Put(c.fs, c.source_file,
                         written_note(src.metadata,
                                      reconstruct_content(SpellKeys(msec)),
                                      "logseq"))
                ELSE c.fs,
                path,
                written_note(mmeta, reconstruct_content(SpellKeys(msec)),
                             c.target)),
     source_meta |-> src.metadata, source_content |-> src.content,
     target_file |-> path, target_exists |-> exists,
     target_meta |-> tgt.metadata, source_sections |-> ssec,
     target_sections |-> tsec, sync_directions |-> dirs,
     merged_sections |-> msec, merged_meta |-> mmeta,
     back_sync |-> back_sync_condition(dirs)]

\* sync_file from the write on (601-632); c is the call, src and tgt what
\* parse_frontmatter gave for the source and the target file
sync_write(c, src, path, exists, tgt, ssec, tsec, dirs, msec, mmeta) ==
    [raised |-> FALSE, step |-> "done",
     fs |-> Put(c.fs, path,
                written_note(mmeta, reconstruct_content(SpellKeys(msec)),
                             c.target)),
     source_meta |-> src.metadata, source_content |-> src.content,
     target_file |-> path, target_exists |-> exists,
     target_meta |-> tgt.metadata, source_sections |-> ssec,
     target_sections |-> tsec, sync_directions |-> dirs,
     merged_sections |-> msec, merged_meta |-> mmeta,
     back_sync |-> back_sync_condition(dirs)]

\* sync_file from the merge of the frontmatter on (585, 599)
sync_frontmatter(c, src, path, exists, tgt, ssec, tsec, dirs, msec) ==
    IF ~has_config(c.target)
    THEN SyncRaised("merge_frontmatter", c.fs, src, path)
    ELSE IF c.os_error = "write"
    THEN SyncRaised("write", c.fs, src, path)
    ELSE sync_write(c, src, path, exists, tgt, ssec, tsec, dirs, msec,
                    merge_frontmatter(src.metadata, tgt.metadata, c.target,
                                      path, c.date))

\* sync_file from the merge of the sections on (578-596)
sync_merge(c, src, type, path, exists, tgt, ssec, tsec, dirs) ==
    sync_frontmatter(c, src, path, exists, tgt, ssec, tsec, dirs,
                     IF exists
                     THEN merge_sections(c.schema, ssec, tsec, type, dirs,
                                         c.source, c.target)
                     ELSE convert_all_sections(c.schema, ssec, type,
                                               c.source, c.target))

\* sync_file from the sections of the target on (566-573)
sync_directions_of(c, src, type, path, exists, tgt, ssec, tsec) ==
    sync_merge(c, src, type, path, exists, tgt, ssec, tsec,
               IF exists
               THEN determine_sync_direction(c.schema, ssec, tsec, type,
                                             c.order)
               ELSE <<>>)

\* sync_file from the target file on (561-565)
sync_target(c, src, type, path, exists, tgt) ==
    sync_directions_of(c, src, type, path, exists, tgt,
                       InternKeys(extract_sections(src.content)),
                       IF exists
                       THEN InternKeys(extract_sections(tgt.content))
                       ELSE <<>>)

\* sync_file from the target path on (547-558)
sync_path(c, src, type, made) ==
    IF made.raised THEN SyncRaised("create_target_path", c.fs, src, <<>>)
    ELSE IF c.os_error = "makedirs"
    THEN SyncRaised("makedirs", c.fs, src, made.path)
    ELSE sync_target(c, src, type, made.path, Has(c.fs, made.path),
                     IF Has(c.fs, made.path)
                     THEN parse_frontmatter(Get(c.fs, made.path, MissingFile))
                     ELSE ParseFailed)

\* sync_file from the note type on (518-552)
sync_parsed(c, src) ==
    IF ~type_is_str(src.metadata)
    THEN SyncRaised("note_type", c.fs, src, <<>>)
    ELSE sync_path(c, src, Name(detected_type(src.metadata)),
                   create_target_path(c.source_file,
                                      sync_source_dir(c.source_file,
                                                      c.source),
                                      c.target, src.metadata))

\* sync_file(source_file, source_platform, target_platform) on the files fs,
\* with the schema, the order the section names are iterated in, the date,
\* and the call of the operating system that fails, if any
sync_file(fs, source_file, source, target, schema, order, date, os_error) ==
    sync_parsed([fs |-> fs, source_file |-> source_file, source |-> source,
                 target |-> target, schema |-> schema, order |-> order,
                 date |-> date, os_error |-> os_error],
                parse_frontmatter(Get(fs, source_file, MissingFile)))

---------------------------------------------------------------------------
(* sync_all_files *)

\* how deep the calls of sync_file by itself are followed
MaxDepth == 2

\* a readable file in the outline encoding
OutlineFile(text) == [readable |-> TRUE, text |-> text, loaded |-> NotLoaded]

\* a readable file that begins with a YAML block, with what
\* frontmatter.loads gives for it
YamlFile(raises, meta, text) ==
    [readable |-> TRUE, text |-> <<"-", "-", "-", NL>>,
     loaded |-> [raises |-> raises, metadata |-> meta, content |-> text]]

\* the source files of a batch
SourceFiles ==
    { OutlineFile(<<"t","i","t","l","e",":",":"," ","A",NL,NL,"-"," ","a","l","p","h","a">>),
      OutlineFile(<<"t","y","p","e",":",":"," ","B","o","o","k",NL,NL,"#","#"," ","N","o","t","e","s",NL,"-"," ","a","l","p","h","a",NL,"#","#"," ","B","i","d","i","r","e","c","t","i","o","n","a","l",NL,"x">>),
      YamlFile(FALSE,
               <<[k |-> "title", v |-> Str(<<"T">>)]>>,
               <<"#","#"," ","B","i","d","i","r","e","c","t","i","o","n","a","l",NL,"x">>),
      YamlFile(FALSE,
               <<[k |-> "type", v |-> IntValue(2024)]>>,
               <<"#","#"," ","N","o","t","e","s",NL,"x">>),
      YamlFile(TRUE, <<>>, <<>>),
      [readable |-> FALSE, text |-> <<"t","i","t","l","e",":",":"," ","A",NL,NL,"-"," ","a","l","p","h","a">>, loaded |-> NotLoaded] }

\* the target file a source file finds, NoTarget when there is none
NoTarget == [readable |-> FALSE, text |-> <<"n", "o", "n", "e">>,
             loaded |-> NotLoaded]

TargetFiles ==
    { NoTarget,
      OutlineFile(<<"t","i","t","l","e",":",":"," ","O","l","d",NL,NL,"#","#"," ","N","o","t","e","s",NL,"-"," ","b","e","t","a">>),
      YamlFile(FALSE,
               <<[k |-> "title", v |-> Str(<<"O", "l", "d">>)],
                 [k |-> "tags", v |-> List(<< <<"t">> >>)]>>,
               <<"#","#"," ","N","o","t","e","s",NL,"-"," ","b","e","t","a">>),
      YamlFile(TRUE, <<>>, <<>>),
      MissingFile }

\* the second source file of a batch and the target file it finds
NextSourceFiles ==
    { OutlineFile(<<"t","i","t","l","e",":",":"," ","A",NL,NL,"-"," ","a","l","p","h","a">>),
      YamlFile(FALSE,
               <<[k |-> "type", v |-> IntValue(2024)]>>,
               <<"#","#"," ","N","o","t","e","s",NL,"x">>),
      MissingFile }

NextTargetFiles ==
    { NoTarget,
      OutlineFile(<<"t","i","t","l","e",":",":"," ","O","l","d",NL,NL,"#","#"," ","N","o","t","e","s",NL,"-"," ","b","e","t","a">>) }

\* (source_platform, target_platform) of a call of sync_all_files, with the
\* directory its glob searches
BatchPairs ==
    { <<"content", "obsidian", ContentPages>>,
      <<"logseq", "obsidian", ContentPages>>,
      <<"content", "logseq", ContentPages>>,
      <<"obsidian", "logseq", PathJoin(ObsidianDir, <<"N","o","t","e","s">>)>> }

BatchNames == << <<"a", ".", "m", "d">>, <<"b", ".", "m", "d">> >>

\* the files before the batch: the source files, and for each the target
\* file found at the path create_target_path gives it
RECURSIVE BatchFiles(_, _, _, _, _)
BatchFiles(dir, source, target, srcs, tgts) ==
    IF srcs = <<>> THEN <<>>
    ELSE LET path  == PathJoin(dir, BatchNames[3 - Len(srcs)])
             meta  == parse_frontmatter(Head(srcs)).metadata
             made  == create_target_path(path, sync_source_dir(path, source),
                                         target, meta)
             rest  == BatchFiles(dir, source, target, Tail(srcs), Tail(tgts))
             with  == Put(rest, path, Head(srcs))
         IN  IF Head(tgts) = NoTarget \/ ~type_is_str(meta) \/ made.raised
             THEN with
             ELSE Put(with, made.path, Head(tgts))

\* the failures of the operating system during a call of sync_file
OsErrors == {"none", "makedirs", "write"}

InitBatch ==
    /\ pc = "sync_all_files"
    /\ SCHEMA \in {DefaultSchema}
    /\ note_type = "note"
    /\ target_exists = FALSE
    /\ source_sections = <<>>
    /\ target_sections = <<>>
    /\ sync_directions = <<>>
    /\ merged_sections = <<>>
    /\ IdleConv
    /\ source_meta = <<>>
    /\ target_meta = <<>>
    /\ platform = "logseq"
    /\ file_path = <<>>
    /\ merged = <<>>
    /\ today \in Dates
    /\ IdleFolder
    /\ IdleBody
    /\ IdleParse
    /\ IdleTransform
    /\ \E pair \in BatchPairs :
           /\ source_platform = pair[1]
           /\ target_platform = pair[2]
           /\ \E s1 \in SourceFiles, s2 \in NextSourceFiles :
              \E t1 \in TargetFiles, t2 \in NextTargetFiles :
                  files = BatchFiles(pair[3], pair[1], pair[2],
                                     <<s1, s2>>, <<t1, t2>>)
           /\ queue = <<PathJoin(pair[3], BatchNames[1]),
                        PathJoin(pair[3], BatchNames[2])>>
    /\ call = <<>>
    /\ last = <<>>

\* the loop of sync_all_files: the next file is handed to sync_file
CallSyncFile ==
    /\ pc = "sync_all_files"
    /\ queue # <<>>
    /\ call' = [source_file |-> Head(queue), source |-> source_platform,
                target |-> target_platform, depth |-> 0]
    /\ queue' = Tail(queue)
    /\ pc' = "sync_file"
    /\ UNCHANGED <<syncVars, convVars, metaVars, folderVars, bodyVars,
                   parseVars, transformVars, files, last>>

\* what follows the call of sync_file that gave r: an exception ends
\* sync_all_files, and a call of sync_file by itself is the next call
SyncFileReturns(r, os_error) ==
    /\ last' = [call |-> call, os_error |-> os_error,
                source_before |-> Get(files, call.source_file, MissingFile),
                target_before |-> Get(files, r.target_file, NoTarget),
                result |-> r]
    /\ files' = r.fs
    /\ IF r.raised THEN pc' = "raised" /\ call' = call
       ELSE IF ~r.back_sync THEN pc' = "sync_all_files" /\ call' = <<>>
       ELSE IF call.depth < MaxDepth
       THEN /\ pc' = "sync_file"
            /\ call' = [source_file |-> r.target_file,
                        source |-> call.target, target |-> call.source,
                        depth |-> call.depth + 1]
       ELSE pc' = "depth_bound" /\ call' = call

\* a call of sync_file
SyncFile ==
    /\ pc = "sync_file"
    /\ \E os_error \in OsErrors :
       \E order \in Orders(sync_section_names(files, call.source_file,
                                              call.source, call.target)) :
           SyncFileReturns(sync_file(files, call.source_file, call.source,
                                     call.target, SCHEMA, order, today,
                                     os_error),
                           os_error)
    /\ UNCHANGED <<syncVars, convVars, metaVars, folderVars, bodyVars,
                   parseVars, transformVars, queue>>

\* the end of sync_all_files
Synchronized ==
    /\ pc = "sync_all_files"
    /\ queue = <<>>
    /\ pc' = "synchronized"
    /\ UNCHANGED <<syncVars, convVars, metaVars, auxVars>>

NextBatch == CallSyncFile \/ SyncFile \/ Synchronized

SpecBatch == InitBatch /\ [][NextBatch]_vars

\* the file could not be read, or begins with --- and could not be parsed
ParseFails(f) ==
    \/ ~f.readable
    \/ StartsWith(f.text, <<"-", "-", "-">>) /\ f.loaded.raises

\* the last call of sync_file found a source file that does not parse
SourceParseFailed == last # <<>> /\ ParseFails(last.source_before)

\* the last call of sync_file found a target file and parsed it, and it does
\* not parse
TargetParseFailed ==
    /\ last # <<>>
    /\ last.result.target_exists
    /\ ParseFails(last.target_before)

\* nothing but a parse failure stands in the way of the last call: the
\* operating system lets it create the directory and write the file, the
\* target platform has a CONFIG entry and the type of the source is text
NothingElseFails ==
    /\ last.os_error = "none"
    /\ has_config(last.call.target)
    /\ type_is_str(last.result.source_meta)

\* C17: a file that cannot be read, or whose YAML block cannot be parsed,
\* counts as a file with empty metadata and empty content, and the call of
\* sync_file that met it, as source or as target, still merges and writes
\* the target file and returns without an exception.
C17_ParseFailureNotFatal ==
    /\ SourceParseFailed =>
           /\ last.result.source_meta = <<>>
           /\ last.result.source_content = <<>>
    /\ TargetParseFailed =>
           /\ last.result.target_meta = <<>>
           /\ last.result.target_sections
                  = InternKeys(extract_sections(<<>>))
    /\ ((SourceParseFailed \/ TargetParseFailed) /\ NothingElseFails) =>
           /\ ~last.result.raised
           /\ last.result.step = "done"
           /\ Get(last.result.fs, last.result.target_file, MissingFile)
                  = written_note(last.result.merged_meta,
                                 reconstruct_content(
                                     SpellKeys(last.result.merged_sections)),
                                 last.call.target)

\* a call that met an unreadable source file and a target file with a
\* malformed YAML block, and has written the target file
C17_Witness ==
    /\ last # <<>>
    /\ ~last.source_before.readable
    /\ TargetParseFailed
    /\ last.target_before.readable
    /\ ~last.result.raised
    /\ Has(last.result.merged_meta, "title")
    /\ Get(files, last.result.target_file, MissingFile)
           # last.target_before

\* C19: when sync_file fails on one file of a batch, the files stay as they
\* were before that call and sync_all_files goes on with the next file.
C19_BatchSurvivesFailure ==
    [][(pc = "sync_file" /\ last'.result.raised) =>
           (files' = files /\ pc' = "sync_all_files")]_vars

\* C20: no call of sync_file computes a direction map that meets the
\* condition of the back-sync, so sync_file never calls itself.
C20_BackSyncUnreachable ==
    /\ last # <<>> => ~back_sync_condition(last.result.sync_directions)
    /\ call # <<>> => call.depth = 0

\* C28: a call of sync_file that returns without calling itself writes one
\* file, the one at the target path: every other file, the source file
\* included when its path is not the target path, is as it was before the
\* call, also when sections were resolved target_to_source.
C28_OnlyTargetWritten ==
    [][(/\ pc = "sync_file"
        /\ ~last'.result.raised
        /\ ~last'.result.back_sync) =>
           /\ Has(files', last'.result.target_file)
           /\ Get(files', last'.result.target_file, MissingFile).readable
           /\ \A path \in Keys(files) \cup Keys(files') :
                  path # last'.result.target_file =>
                      /\ Has(files, path) /\ Has(files', path)
                      /\ Get(files', path, MissingFile)
                             = Get(files, path, MissingFile)
           /\ call.source_file # last'.result.target_file =>
                  Get(files', call.source_file, MissingFile)
                      = Get(files, call.source_file, MissingFile)]_vars

\* a call has resolved a section target_to_source and returned without
\* calling itself; the target file is rewritten and the source file, at
\* another path, is as the call found it
C28_Witness ==
    /\ last # <<>>
    /\ ~last.result.raised
    /\ ~last.result.back_sync
    /\ \E i \in 1..Len(last.result.sync_directions) :
           last.result.sync_directions[i].v = "target_to_source"
    /\ last.call.source_file # last.result.target_file
    /\ last.source_before.readable
    /\ Get(files, last.call.source_file, MissingFile) = last.source_before
    /\ Get(files, last.result.target_file, MissingFile) # last.target_before

---------------------------------------------------------------------------
(* sync_file and the calls it makes of itself *)

\* the note of the obsidian vault and the note of the logseq graph that
\* create_target_path gives for one another
ObsidianNote == PathJoin(PathJoin(ObsidianDir, <<"N","o","t","e","s">>), BatchNames[1])
LogseqNote == PathJoin(LogseqPages, BatchNames[1])

\* the sections a note is made of
ChainBlocks ==
    << <<"#","#"," ","B","i","d","i","r","e","c","t","i","o","n","a","l",NL,NL,"x">>,
       <<"#","#"," ","N","o","t","e","s",NL,NL,"-">>,
       <<"#","#"," ","S","t","a","t","u","s",NL,NL,"-">> >>

\* the blocks of bs that mask keeps
RECURSIVE Picked(_, _)
Picked(bs, mask) ==
    IF bs = <<>> THEN <<>>
    ELSE (IF mask[Len(mask) - Len(bs) + 1] THEN <<Head(bs)>> ELSE <<>>)
         \o Picked(Tail(bs), mask)

\* the notes in the outline encoding with a title and some of the sections
ChainNotes ==
    { OutlineFile(Join(<<<<"t","i","t","l","e",":",":"," ","A">>>> \o Picked(ChainBlocks, mask), <<NL, NL>>)) :
          mask \in [1..Len(ChainBlocks) -> BOOLEAN] }

InitChain ==
    /\ pc = "sync_file"
    /\ SCHEMA \in {DefaultSchema}
    /\ note_type = "note"
    /\ target_exists = FALSE
    /\ source_sections = <<>>
    /\ target_sections = <<>>
    /\ sync_directions = <<>>
    /\ merged_sections = <<>>
    /\ IdleConv
    /\ source_meta = <<>>
    /\ target_meta = <<>>
    /\ platform = "logseq"
    /\ file_path = <<>>
    /\ merged = <<>>
    /\ today \in Dates
    /\ IdleFolder
    /\ IdleBody
    /\ IdleParse
    /\ IdleTransform
    /\ source_platform = "obsidian"
    /\ target_platform = "logseq"
    /\ \E f \in ChainNotes, g \in ChainNotes :
           files = <<[k |-> ObsidianNote, v |-> f], [k |-> LogseqNote, v |-> g]>>
    /\ queue = <<>>
    /\ call = [source_file |-> ObsidianNote, source |-> "obsidian",
               target |-> "logseq", depth |-> 0]
    /\ last = <<>>

\* the calls of sync_file made so far for one file, each with the files it
\* found
ChainSoFar ==
    (IF last = <<>> THEN <<>> ELSE last.chain)
        \o <<[source_file |-> call.source_file, source |-> call.source,
              target |-> call.target, files |-> files]>>

\* what follows the call of sync_file that gave r. A call of sync_file by
\* itself is the next call; when an earlier call of the chain had the same
\* arguments and found the same files, the calls repeat from there on, and
\* the chain is followed no further
SyncFileRecurs(r, os_error) ==
    /\ last' = [call |-> call, os_error |-> os_error,
                source_before |-> Get(files, call.source_file, MissingFile),
                target_before |-> Get(files, r.target_file, NoTarget),
                result |-> r, chain |-> ChainSoFar]
    /\ files' = r.fs
    /\ call' = IF r.raised \/ ~r.back_sync THEN <<>>
               ELSE [source_file |-> r.target_file, source |-> call.target,
                     target |-> call.source, depth |-> 1]
    /\ pc' = IF r.raised THEN "raised"
             ELSE IF ~r.back_sync THEN "returned"
             ELSE IF \E i \in 1..Len(ChainSoFar) :
                         ChainSoFar[i] = [source_file |-> r.target_file,
                                          source |-> call.target,
                                          target |-> call.source,
                                          files |-> r.fs]
             THEN "repeats"
             ELSE "sync_file"

\* a call of sync_file, by sync_all_files or by itself
SyncFileChain ==
    /\ pc = "sync_file"
    /\ \E os_error \in OsErrors :
       \E order \in Orders(sync_section_names(files, call.source_file,
                                              call.source, call.target)) :
           SyncFileRecurs(sync_file(files, call.source_file, call.source,
                                    call.target, SCHEMA, order, today,
                                    os_error),
                          os_error)
    /\ UNCHANGED <<syncVars, convVars, metaVars, folderVars, bodyVars,
                   parseVars, transformVars, queue>>

NextChain == SyncFileChain

SpecChain == InitChain /\ [][NextChain]_vars

\* C21: every call of sync_file returns or raises after finitely many calls
\* of itself: the two notes do not keep producing target_to_source
\* directions forever, so no call of the chain meets the arguments and the
\* files of an earlier call of the chain again.
C21_BackSyncTerminates == pc # "repeats"

---------------------------------------------------------------------------
(* sync_file twice on one note *)

\* what a note holds before its first heading, under the heading Notes and
\* under the heading Private; <<>> when the note lacks the part
RepeatLeads == { <<>>, <<"i","n","t","r","o">> }

RepeatNotes == { <<>>, <<"#","#"," ","N","o","t","e","s",NL,"-"," ","a","l","p","h","a">>,
                 <<"#","#"," ","N","o","t","e","s",NL,"-">> }

RepeatPrivate == { <<>>, <<"#","#"," ","P","r","i","v","a","t","e",NL,"-"," ","x">> }

\* the parts of a note that are there
Parts(lead, notes, private) ==
    SelectSeq(<<lead, notes, private>>, LAMBDA part : part # <<>>)

\* the notes in the outline encoding with a title and some of the parts
RepeatSources ==
    { OutlineFile(Join(<<<<"t","i","t","l","e",":",":"," ","A">>>> \o Parts(l, n, p), <<NL, NL>>)) :
          l \in RepeatLeads, n \in RepeatNotes, p \in RepeatPrivate }

\* the target file the first call finds
RepeatTargets ==
    { NoTarget,
      OutlineFile(<<"t","i","t","l","e",":",":"," ","O","l","d",NL,NL,"#","#"," ","N","o","t","e","s",NL,"-"," ","b","e","t","a",NL,NL,"#","#"," ","P","r","i","v","a","t","e",NL,"y">>),
      OutlineFile(<<"t","i","t","l","e",":",":"," ","O","l","d",NL,NL,"l","e","a","d",NL,NL,"#","#"," ","P","r","i","v","a","t","e",NL,"y">>) }

\* the schema files: the section private is synced, or not synced and
\* exclusive to no platform, to logseq or to obsidian
RepeatSchemas ==
    { DefaultSchema,
      FileSchema("sync" :> FALSE),
      FileSchema("sync" :> FALSE @@ "logseq_only" :> TRUE),
      FileSchema("sync" :> FALSE @@ "obsidian_only" :> TRUE) }

RepeatPairs ==
    { <<"content", "logseq", ContentPages>>,
      <<"content", "obsidian", ContentPages>> }

\* sync_all_files is run twice over a directory that holds one note: the
\* note is handed to sync_file twice
InitRepeat ==
    /\ pc = "sync_all_files"
    /\ SCHEMA \in RepeatSchemas
    /\ note_type = "note"
    /\ target_exists = FALSE
    /\ source_sections = <<>>
    /\ target_sections = <<>>
    /\ sync_directions = <<>>
    /\ merged_sections = <<>>
    /\ IdleConv
    /\ source_meta = <<>>
    /\ target_meta = <<>>
    /\ platform = "logseq"
    /\ file_path = <<>>
    /\ merged = <<>>
    /\ today \in Dates
    /\ IdleFolder
    /\ IdleBody
    /\ IdleParse
    /\ IdleTransform
    /\ \E pair \in RepeatPairs :
           /\ source_platform = pair[1]
           /\ target_platform = pair[2]
           /\ \E s \in RepeatSources, t \in RepeatTargets :
                  files = BatchFiles(pair[3], pair[1], pair[2], <<s>>, <<t>>)
           /\ queue = <<PathJoin(pair[3], BatchNames[2]),
                        PathJoin(pair[3], BatchNames[2])>>
    /\ call = <<>>
    /\ last = <<>>

NextRepeat == CallSyncFile \/ SyncFile \/ Synchronized

SpecRepeat == InitRepeat /\ [][NextRepeat]_vars

\* the sections sync_file reads from a file
file_sections(f) == InternKeys(extract_sections(parse_frontmatter(f).content))

\* the section names of a file, each with its text
SectionTexts(f) ==
    {<<file_sections(f)[i].k, file_sections(f)[i].v>> :
         i \in 1..Len(file_sections(f))}

\* the second call of sync_file for the note has returned
SecondRunDone ==
    /\ pc = "sync_all_files"
    /\ queue = <<>>
    /\ last # <<>>
    /\ ~last.result.raised
    /\ ~last.result.back_sync

\* C24: with the source file and the schema unchanged, the second run of
\* sync_file leaves the target file with the section names and the section
\* texts the first run left it with, also when the first run created the
\* target file and when the schema marks source sections sync false.
C24_SecondRunIdempotent ==
    SecondRunDone =>
        SectionTexts(Get(files, last.result.target_file, MissingFile))
            = SectionTexts(last.target_before)

\* the last call of sync_file found no target file and has written one
FreshlyCreated ==
    /\ last # <<>>
    /\ ~last.result.raised
    /\ ~last.result.target_exists

\* the text convert_section_format gives for a section of the source of the
\* last call
ConvertedText(name) ==
    convert_section_format(SCHEMA,
                           Get(last.result.source_sections, name, <<>>),
                           Name(detected_type(last.result.source_meta)),
                           name, last.call.source, last.call.target)

\* the sections of the file the last call has written
WrittenSections ==
    file_sections(Get(files, last.result.target_file, MissingFile))

\* the schema entry of the section private has sync false
PrivateUnsynced ==
    /\ "private" \in DOMAIN SCHEMA.note_types["note"]["sections"]
    /\ ~SCHEMA.note_types["note"]["sections"]["private"].flags["sync"]

\* C25 as stated: when the target file does not exist, sync_file writes
\* every section of the source, converted by convert_section_format, to the
\* new target file, sections with sync false included
C25_FreshWritesAll ==
    FreshlyCreated =>
        \A name \in Keys(last.result.source_sections) :
            /\ Has(WrittenSections, name)
            /\ Get(WrittenSections, name, <<>>) = Strip(ConvertedText(name))

\* C25 amended: when the target file does not exist, sync_file asks no
\* direction and writes every section of the source whose converted text is
\* not blank, converted by convert_section_format, to the new target file,
\* sections with sync false included; a section whose converted text is
\* blank is left out of the file
C25_FreshWritesNonBlank ==
    FreshlyCreated =>
        /\ last.result.sync_directions = <<>>
        /\ \A name \in Keys(last.result.source_sections) :
               IF Strip(ConvertedText(name)) # <<>>
               THEN /\ Has(WrittenSections, name)
                    /\ Get(WrittenSections, name, <<>>)
                           = Strip(ConvertedText(name))
               ELSE name # "content" => ~Has(WrittenSections, name)

\* a new target file has been written with the section private, which the
\* schema marks sync false and exclusive to logseq, converted from bullets
\* to a paragraph
C25_Witness ==
    /\ FreshlyCreated
    /\ PrivateUnsynced
    /\ last.call.source = "content"
    /\ last.call.target = "obsidian"
    /\ FGet(SCHEMA.note_types["note"]["sections"]["private"].flags,
            "logseq_only", FALSE)
    /\ Get(last.result.source_sections, "private", <<>>) = <<"-", " ", "x">>
    /\ Get(WrittenSections, "private", <<>>) = <<"x">>

\* the last call of sync_file found a target file, merged and has written it
Rewritten ==
    /\ last # <<>>
    /\ ~last.result.raised
    /\ last.result.target_exists

LastDirection(name) == Get(last.result.sync_directions, name, "missing")

\* C26: when the target file exists, every section name of the merged map
\* has the direction none, source_to_target, target_to_source or
\* target_only, and a section resolved ignore or source_only is absent from
\* the merged map and from the rewritten target file, even if the target
\* file held the section before.
C26_IgnoredSectionsDropped ==
    Rewritten =>
        /\ \A name \in Keys(last.result.merged_sections) :
               LastDirection(name) \in {"none", "source_to_target",
                                        "target_to_source", "target_only"}
        /\ \A name \in Keys(last.result.sync_directions) :
               LastDirection(name) \in {"ignore", "source_only"} =>
                   /\ ~Has(last.result.merged_sections, name)
                   /\ ~Has(WrittenSections, name)

\* the target file held the section private, the section was resolved
\* ignore, and the rewritten target file holds the section notes and no
\* section private
C26_Witness ==
    /\ Rewritten
    /\ Has(file_sections(last.target_before), "private")
    /\ LastDirection("private") = "ignore"
    /\ LastDirection("notes") = "source_to_target"
    /\ Has(WrittenSections, "notes")
    /\ ~Has(WrittenSections, "private")

\* the file at the target path after the call of sync_file that is about to
\* be made, were the set of section names iterated in the given order
WrittenInOrder(order, os_error) ==
    Get(sync_file(files, call.source_file, call.source, call.target, SCHEMA,
                  order, today, os_error).fs,
        last'.result.target_file, MissingFile)

\* C27: the body sync_file writes, the order of its sections included, is
\* the same for every order in which the set of section names is iterated:
\* a call on the same source file, target file and schema writes the same
\* target file.
C27_SectionOrderDeterministic ==
    [][(pc = "sync_file" /\ ~last'.result.raised) =>
           \A order \in Orders(sync_section_names(files, call.source_file,
                                                  call.source, call.target)) :
               WrittenInOrder(order, last'.os_error)
                   = Get(files', last'.result.target_file, MissingFile)]_vars

==========================================================================
